---- MODULE Spec2Model ----
(***************************************************************************)
(* AwsManager of the AWS provisioner (src/provisioner/aws-manager.js):     *)
(* the snapshot refresh update(), the diff of successive snapshots, the    *)
(* in-flight tracker of submitted spot requests and capacity counting,     *)
(* run against a model of the EC2 API.                                     *)
(*                                                                         *)
(* Times are minutes on one clock.  Spot request ids are 1, 2, ... in the  *)
(* order EC2 hands them out; the instance launched for request k has       *)
(* instance id k.                                                          *)
(***************************************************************************)
EXTENDS Integers, Sequences, FiniteSets, TLC

VARIABLES
  now,                            \* the wall clock, in minutes
  ec2Requests,                    \* EC2: every spot request submitted so far, by id
  apiState,                       \* this.__apiState
  previousApiState,               \* this.__previousApiState
  deadState,                      \* this.__deadState
  internalState,                  \* this.__internalState, the in-flight tracker
  awaitingStateReason,            \* this.__awaitingStateReason
  awaitingSpotFulfilmentStatus,   \* this.__awaitingSpotFulfilmentStatus
  pc,                             \* where the promise chain in progress stands
  livingSpotRequests,             \* the open spot requests the latest update() was given
  cancelCalls,                    \* cancelSpotInstanceRequests calls of the latest update()
  events,                         \* influx points reported by the latest update()
  call,                           \* a call of a pure method: its name and arguments
  result,                         \* what that call returned
  keyPairs,                       \* EC2: the key pairs, as <<region, key name>>
  knownKeyPairs,                  \* this.__knownKeyPairs
  killCalls,                      \* EC2 calls issued by the latest killer call
  keyPairCalls                    \* the createKeyPair and deleteKeyPair calls made so far

vars == <<now, ec2Requests, apiState, previousApiState, deadState,
          internalState, awaitingStateReason, awaitingSpotFulfilmentStatus,
          pc, livingSpotRequests, cancelCalls, events, call, result,
          keyPairs, knownKeyPairs, killCalls, keyPairCalls>>

----------------------------------------------------------------------------
(* Bounds of the model *)

MaxBids == 1
MaxTicks == 2
MaxIterations == 2
MaxInFlight == 2
TickMinutes == 15
MaxFailedCalls == 1
MaxRuns == 2

(* Constants of the program *)

MAX_ITERATIONS_FOR_STATE_RESOLUTION == 20
StalledAfterMinutes == 20
InFlightMinutes == 15
MaxInstanceLifeHours == 96

keyPrefix == "aws-provisioner-v1-managed:"
regions == <<"us-west-2", "us-east-1", "us-west-1">>
RegionSet == {regions[i] : i \in 1..Len(regions)}

stalledStates ==
  { "capacity-not-available", "capacity-oversubscribed", "price-too-low",
    "not-scheduled-yet", "launch-group-constraint", "az-group-constraint",
    "placement-group-constraint", "constraint-not-fulfillable " }

----------------------------------------------------------------------------
(* Sequence helpers *)

Range(s) == {s[i] : i \in 1..Len(s)}

RECURSIVE Concat(_, _)
Concat(f, keys) ==
  IF keys = <<>> THEN <<>> ELSE f[Head(keys)] \o Concat(f, Tail(keys))

RECURSIVE MapSeq(_, _)
MapSeq(Op(_), s) ==
  IF s = <<>> THEN <<>> ELSE <<Op(Head(s))>> \o MapSeq(Op, Tail(s))

RequestIds(reqs) == {reqs[i].SpotInstanceRequestId : i \in 1..Len(reqs)}
InstanceIds(insts) == {insts[i].InstanceId : i \in 1..Len(insts)}
InternalIds(internal) ==
  {internal[i].request.SpotInstanceRequestId : i \in 1..Len(internal)}

----------------------------------------------------------------------------
(* Prices.  A price is a number of cents; on the wire it is a decimal      *)
(* string of dollars.                                                      *)

DigitChars == "0123456789"
DigitString(d) == SubSeq(DigitChars, d + 1, d + 1)
DigitValue(c) == CHOOSE d \in 0..9 : DigitString(d) = c

(* bid.price.toString(): the shortest decimal, for a price under 10        *)
(* dollars                                                                 *)
NumberToString(cents) ==
  LET dollars == cents \div 100
      tenths == (cents % 100) \div 10
      hundredths == cents % 10
  IN  DigitString(dollars)
      \o (IF tenths = 0 /\ hundredths = 0 THEN ""
          ELSE "." \o DigitString(tenths)
                   \o (IF hundredths = 0 THEN "" ELSE DigitString(hundredths)))

(* EC2 returns the price of a request with six decimals *)
RECURSIVE PadDecimals(_)
PadDecimals(str) == IF Len(str) < 8 THEN PadDecimals(str \o "0") ELSE str

Ec2SpotPrice(str) == PadDecimals(IF Len(str) = 1 THEN str \o "." ELSE str)

(* parseFloat(str, 10), in cents, of a decimal string with one digit of    *)
(* dollars: the digits after the cents are zeros in this model             *)
parseFloat(str) ==
  LET digit(i) == IF i <= Len(str) THEN DigitValue(SubSeq(str, i, i)) ELSE 0
  IN  digit(1) * 100 + digit(3) * 10 + digit(4)

----------------------------------------------------------------------------
(* The inputs of requestSpotInstance: worker type, instance type, region,  *)
(* and bid price in cents.                                                 *)

BidInputs ==
  { [workerType |-> "w1", type |-> "t2", region |-> "us-west-2", price |-> 41],
    [workerType |-> "w2", type |-> "t1", region |-> "us-east-1", price |-> 50] }

----------------------------------------------------------------------------
(* EC2.  A spot request is open from its submission until it is fulfilled, *)
(* fails or is cancelled; a describe call shows it once it is visible.  A  *)
(* fulfilled request has an instance, running and later terminated, whose  *)
(* state reason may be filled in after the termination.                    *)

Ec2Reasons == {"Server.SpotInstanceTermination", "Client.UserInitiatedShutdown"}

StatusMessage(code) ==
  CASE code = "fulfilled" -> "Your Spot request is fulfilled."
    [] code = "bad-parameters" -> "Your Spot request failed."
    [] code = "canceled-before-fulfillment" -> "Your Spot request was canceled."
    [] code = "price-too-low" -> "Your Spot request price is too low."
    [] OTHER -> "Your Spot request is pending."

(* The request k as a describeSpotInstanceRequests call returns it.  The   *)
(* view of a request that has left the open state may lag and still say    *)
(* open.                                                                   *)
SpotRequestView(q, lagging) ==
  [ SpotInstanceRequestId |-> q.SpotInstanceRequestId,
    State |-> IF lagging THEN "open" ELSE q.State,
    Status |-> [ Code |-> IF lagging THEN "pending-fulfillment" ELSE q.Code,
                 Message |-> StatusMessage(IF lagging THEN "pending-fulfillment" ELSE q.Code) ],
    CreateTime |-> q.CreateTime,
    SpotPrice |-> Ec2SpotPrice(q.SpotPrice),
    LaunchSpecification |-> [ KeyName |-> keyPrefix \o q.workerType,
                              InstanceType |-> q.InstanceType ] ]

InstanceView(q) ==
  [ InstanceId |-> q.SpotInstanceRequestId,
    SpotInstanceRequestId |-> q.SpotInstanceRequestId,
    KeyName |-> keyPrefix \o q.workerType,
    InstanceType |-> q.InstanceType,
    State |-> [Name |-> q.iState],
    StateReason |-> [Code |-> q.iReason] ]

RECURSIVE SpotRequestsIn(_, _, _, _)
SpotRequestsIn(reqs, region, states, lag) ==
  IF reqs = <<>> THEN <<>>
  ELSE LET q == Head(reqs)
           rest == SpotRequestsIn(Tail(reqs), region, states, lag)
       IN  IF q.Region = region /\ q.visible /\ q.State \in states
           THEN <<SpotRequestView(q, q.SpotInstanceRequestId \in lag)>> \o rest
           ELSE rest

RECURSIVE ReservationsIn(_, _, _)
ReservationsIn(reqs, region, states) ==
  IF reqs = <<>> THEN <<>>
  ELSE LET q == Head(reqs)
           rest == ReservationsIn(Tail(reqs), region, states)
       IN  IF q.Region = region /\ q.iState \in states
           THEN <<[Instances |-> <<InstanceView(q)>>]>> \o rest
           ELSE rest

(* ec2.describeSpotInstanceRequests and ec2.describeInstances over all     *)
(* regions, with the state filters of update().                            *)
describeSpotInstanceRequests(states, lag) ==
  [r \in RegionSet |->
     [SpotInstanceRequests |-> SpotRequestsIn(ec2Requests, r, states, lag)]]

describeInstances(states) ==
  [r \in RegionSet |-> [Reservations |-> ReservationsIn(ec2Requests, r, states)]]

----------------------------------------------------------------------------
(* AwsManager: the pure parts of update().                                 *)

(* _filterSpotRequests, for one request: the buckets it is pushed to and   *)
(* the points it reports.  killWhen is CreateTime plus 20 minutes.         *)
FilterOne(region, sr, t) ==
  LET killWhen == sr.CreateTime + StalledAfterMinutes
      aged == killWhen < t
      bad == sr.Status.Code \in stalledStates
  IN  [ stalled |-> (IF aged THEN <<sr>> ELSE <<>>) \o (IF bad THEN <<sr>> ELSE <<>>),
        good |-> IF bad THEN <<>> ELSE <<sr>>,
        events |-> IF sr.Status.Code = "price-too-low"
                   THEN <<[ kind |-> "spot_price_floor",
                            region |-> region,
                            instanceType |-> sr.LaunchSpecification.InstanceType,
                            price |-> parseFloat(sr.SpotPrice),
                            reason |-> "spot-request-price-too-low" ]>>
                   ELSE <<>> ]

RECURSIVE FilterRegion(_, _, _)
FilterRegion(region, srs, t) ==
  IF srs = <<>> THEN [stalled |-> <<>>, good |-> <<>>, events |-> <<>>]
  ELSE LET one == FilterOne(region, Head(srs), t)
           rest == FilterRegion(region, Tail(srs), t)
       IN  [ stalled |-> one.stalled \o rest.stalled,
             good |-> one.good \o rest.good,
             events |-> one.events \o rest.events ]

_filterSpotRequests(spotReqs, t) ==
  LET per == [r \in DOMAIN spotReqs |->
                FilterRegion(r, spotReqs[r].SpotInstanceRequests, t)]
  IN  [ good |-> [r \in DOMAIN spotReqs |-> per[r].good],
        stalled |-> [r \in DOMAIN spotReqs |-> per[r].stalled],
        events |-> Concat([r \in DOMAIN spotReqs |-> per[r].events], regions) ]

(* _classify: flatten the reservations and tag every item with its region  *)
(* and the worker type cut out of its key name.                            *)
(* The worker type with the last character of the prefix left on it *)
WorkerTypeOfKeyFromColon(keyName) == SubSeq(keyName, Len(keyPrefix), Len(keyName))

WorkerTypeOfKey(keyName) == SubSeq(keyName, Len(keyPrefix) + 1, Len(keyName))

ClassifyInstance(region, instance) ==
  instance @@ [Region |-> region, WorkerType |-> WorkerTypeOfKey(instance.KeyName)]

ClassifyRequest(region, request) ==
  request @@ [ Region |-> region,
               WorkerType |-> WorkerTypeOfKey(request.LaunchSpecification.KeyName) ]

RECURSIVE ClassifyInstances(_, _)
ClassifyInstances(region, reservations) ==
  IF reservations = <<>> THEN <<>>
  ELSE LET insts == Head(reservations).Instances
       IN  [i \in 1..Len(insts) |-> ClassifyInstance(region, insts[i])]
           \o ClassifyInstances(region, Tail(reservations))

_classify(instanceState, spotReqs) ==
  [ instances |->
      Concat([r \in RegionSet |->
                ClassifyInstances(r, instanceState[r].Reservations)], regions),
    requests |->
      Concat([r \in RegionSet |->
                [i \in 1..Len(spotReqs[r]) |-> ClassifyRequest(r, spotReqs[r][i])]],
             regions) ]

(* _compareStates: the records of the dead state whose id was in the       *)
(* previous state and is not in the new one.                               *)
IsMissingInstance(instance, newState, previousState) ==
  /\ instance.InstanceId \in InstanceIds(previousState.instances)
  /\ instance.InstanceId \notin InstanceIds(newState.instances)

IsMissingRequest(request, newState, previousState) ==
  /\ request.SpotInstanceRequestId \in RequestIds(previousState.requests)
  /\ request.SpotInstanceRequestId \notin RequestIds(newState.requests)

_compareStates(newState, previousState, dead) ==
  [ instances |->
      SelectSeq(dead.instances,
                LAMBDA i : IsMissingInstance(i, newState, previousState)),
    requests |->
      SelectSeq(dead.requests,
                LAMBDA q : IsMissingRequest(q, newState, previousState)) ]

----------------------------------------------------------------------------
(* _reconcileStateDifferences *)

plotSpotFulfilment(request) ==
  [ kind |-> "request_fulfilled",
    id |-> request.SpotInstanceRequestId,
    region |-> request.Region,
    instanceType |-> request.LaunchSpecification.InstanceType,
    workerType |-> request.WorkerType ]

reportSpotRequestsDied(request) ==
  [ kind |-> "request_died",
    id |-> request.SpotInstanceRequestId,
    region |-> request.Region,
    instanceType |-> request.LaunchSpecification.InstanceType,
    workerType |-> request.WorkerType,
    bid |-> parseFloat(request.SpotPrice),
    state |-> request.State,
    statusCode |-> request.Status.Code,
    statusMsg |-> request.Status.Message ]

(* One departed request, without the branch of the open requests *)
DepartedRequestNeverOpen(request, t) ==
  IF request.State = "active" /\ request.Status.Code = "fulfilled"
  THEN [events |-> <<plotSpotFulfilment(request)>>, awaiting |-> <<>>]
  ELSE [events |-> <<reportSpotRequestsDied(request)>>, awaiting |-> <<>>]

(* One departed request: the points it reports and the entries it pushes   *)
(* on __awaitingSpotFulfilmentStatus.                                      *)
DepartedRequest(request, t) ==
  IF request.State = "active" /\ request.Status.Code = "fulfilled"
  THEN [events |-> <<plotSpotFulfilment(request)>>, awaiting |-> <<>>]
  ELSE IF request.State = "open"
  THEN [ events |-> <<>>,
         awaiting |-> <<[ id |-> request.SpotInstanceRequestId,
                          time |-> t,
                          iterationCount |-> 0 ]>> ]
  ELSE [events |-> <<reportSpotRequestsDied(request)>>, awaiting |-> <<>>]

RECURSIVE DepartedRequests(_, _)
DepartedRequests(requests, t) ==
  IF requests = <<>> THEN [events |-> <<>>, awaiting |-> <<>>]
  ELSE LET one == DepartedRequest(Head(requests), t)
           rest == DepartedRequests(Tail(requests), t)
       IN  [ events |-> one.events \o rest.events,
             awaiting |-> one.awaiting \o rest.awaiting ]

(* requestMightHave.SpotInstanceRequestId === requestAwaiting compares the *)
(* id of a dead request with the whole awaiting entry {id, time,           *)
(* iterationCount}: a string is never strictly equal to an object.         *)
IdIsAwaitingEntry(id, requestAwaiting) == FALSE

RECURSIVE AwaitingSpotMatches(_, _)
AwaitingSpotMatches(requestAwaiting, deadRequests) ==
  IF deadRequests = <<>> THEN <<>>
  ELSE LET q == Head(deadRequests)
       IN  (IF /\ IdIsAwaitingEntry(q.SpotInstanceRequestId, requestAwaiting)
               /\ q.State = "active" /\ q.Status.Code = "fulfilled"
            THEN <<plotSpotFulfilment(q)>> ELSE <<>>)
           \o AwaitingSpotMatches(requestAwaiting, Tail(deadRequests))

(* The filter over __awaitingSpotFulfilmentStatus: iterationCount++ > MAX  *)
(* tests the count before the increment; every entry visited is            *)
(* incremented.                                                            *)
RECURSIVE FilterAwaitingSpot(_, _)
FilterAwaitingSpot(list, dead) ==
  IF list = <<>> THEN [events |-> <<>>, kept |-> <<>>]
  ELSE LET a == Head(list)
           found == AwaitingSpotMatches(a, dead.requests)
           keepInTheList ==
             /\ found = <<>>
             /\ ~(a.iterationCount > MAX_ITERATIONS_FOR_STATE_RESOLUTION)
           bumped == [a EXCEPT !.iterationCount = @ + 1]
           rest == FilterAwaitingSpot(Tail(list), dead)
       IN  [ events |-> found \o rest.events,
             kept |-> (IF keepInTheList THEN <<bumped>> ELSE <<>>) \o rest.kept ]

(* The price of the spot request of an instance: the first price that is   *)
(* not 0 among the requests with its id, in the dead state and then in the *)
(* api state.                                                              *)
RequestPricesUnread(requests, id) == <<>>

RequestPrices(requests, id) ==
  LET hits == SelectSeq(requests, LAMBDA q : q.SpotInstanceRequestId = id)
  IN  SelectSeq([i \in 1..Len(hits) |-> parseFloat(hits[i].SpotPrice)],
                LAMBDA price : price # 0)

plotInstanceDeath(instance, time, dead, api) ==
  LET prices == RequestPrices(dead.requests, instance.SpotInstanceRequestId)
                \o RequestPrices(api.requests, instance.SpotInstanceRequestId)
  IN  <<[ kind |-> "instance_terminated",
          id |-> instance.InstanceId,
          region |-> instance.Region,
          instanceType |-> instance.InstanceType,
          workerType |-> instance.WorkerType,
          spotRequestId |-> instance.SpotInstanceRequestId,
          time |-> time,
          stateMsg |-> instance.State.Name,
          stateChangeCode |-> instance.StateReason.Code ]>>
      \o (IF instance.StateReason.Code = "Server.SpotInstanceTermination"
             /\ prices # <<>>
          THEN <<[ kind |-> "spot_price_floor",
                   region |-> instance.Region,
                   instanceType |-> instance.InstanceType,
                   price |-> Head(prices),
                   reason |-> "instance-spot-killed" ]>>
          ELSE <<>>)

HasStateReason(instance) == instance.StateReason.Code # ""

RECURSIVE DepartedInstances(_, _, _, _)
DepartedInstances(instances, t, dead, api) ==
  IF instances = <<>> THEN [events |-> <<>>, awaiting |-> <<>>]
  ELSE LET i == Head(instances)
           rest == DepartedInstances(Tail(instances), t, dead, api)
       IN  IF HasStateReason(i)
           THEN [ events |-> plotInstanceDeath(i, t, dead, api) \o rest.events,
                  awaiting |-> rest.awaiting ]
           ELSE [ events |-> rest.events,
                  awaiting |-> <<[id |-> i.InstanceId, time |-> t, iterationCount |-> 0]>>
                               \o rest.awaiting ]

(* The matches of an awaiting instance, plotted without the time of the    *)
(* entry                                                                   *)
RECURSIVE AwaitingReasonMatchesUndated(_, _, _, _)
AwaitingReasonMatchesUndated(instanceAwaiting, deadInstances, dead, api) ==
  IF deadInstances = <<>> THEN <<>>
  ELSE LET i == Head(deadInstances)
       IN  (IF i.InstanceId = instanceAwaiting.id /\ HasStateReason(i)
            THEN plotInstanceDeath(i, 0, dead, api) ELSE <<>>)
           \o AwaitingReasonMatchesUndated(instanceAwaiting, Tail(deadInstances),
                                           dead, api)

RECURSIVE AwaitingReasonMatches(_, _, _, _)
AwaitingReasonMatches(instanceAwaiting, deadInstances, dead, api) ==
  IF deadInstances = <<>> THEN <<>>
  ELSE LET i == Head(deadInstances)
       IN  (IF i.InstanceId = instanceAwaiting.id /\ HasStateReason(i)
            THEN plotInstanceDeath(i, instanceAwaiting.time, dead, api) ELSE <<>>)
           \o AwaitingReasonMatches(instanceAwaiting, Tail(deadInstances), dead, api)

(* The filter over __awaitingStateReason without its look at the dead      *)
(* state                                                                   *)
RECURSIVE FilterAwaitingReasonBlind(_, _, _)
FilterAwaitingReasonBlind(list, dead, api) ==
  IF list = <<>> THEN [events |-> <<>>, kept |-> <<>>]
  ELSE LET a == Head(list)
           bumped == [a EXCEPT !.iterationCount = @ + 1]
           rest == FilterAwaitingReasonBlind(Tail(list), dead, api)
       IN  [ events |-> rest.events,
             kept |-> (IF ~(a.iterationCount > MAX_ITERATIONS_FOR_STATE_RESOLUTION)
                       THEN <<bumped>> ELSE <<>>) \o rest.kept ]

(* The filter over __awaitingStateReason that plots the instance whose     *)
(* reason has come and keeps its entry on the list                         *)
RECURSIVE FilterAwaitingReasonKeeping(_, _, _)
FilterAwaitingReasonKeeping(list, dead, api) ==
  IF list = <<>> THEN [events |-> <<>>, kept |-> <<>>]
  ELSE LET a == Head(list)
           found == AwaitingReasonMatches(a, dead.instances, dead, api)
           keepItInTheList == ~(a.iterationCount > MAX_ITERATIONS_FOR_STATE_RESOLUTION)
           bumped == [a EXCEPT !.iterationCount = @ + 1]
           rest == FilterAwaitingReasonKeeping(Tail(list), dead, api)
       IN  [ events |-> found \o rest.events,
             kept |-> (IF keepItInTheList THEN <<bumped>> ELSE <<>>) \o rest.kept ]

RECURSIVE FilterAwaitingReason(_, _, _)
FilterAwaitingReason(list, dead, api) ==
  IF list = <<>> THEN [events |-> <<>>, kept |-> <<>>]
  ELSE LET a == Head(list)
           found == AwaitingReasonMatches(a, dead.instances, dead, api)
           keepItInTheList ==
             /\ found = <<>>
             /\ ~(a.iterationCount > MAX_ITERATIONS_FOR_STATE_RESOLUTION)
           bumped == [a EXCEPT !.iterationCount = @ + 1]
           rest == FilterAwaitingReason(Tail(list), dead, api)
       IN  [ events |-> found \o rest.events,
             kept |-> (IF keepItInTheList THEN <<bumped>> ELSE <<>>) \o rest.kept ]

(* The whole of _reconcileStateDifferences: the points reported, in order, *)
(* and the two awaiting lists it leaves.                                   *)
_reconcileStateDifferences(differences, dead, api, awaitSpot, awaitReason, t) ==
  LET reqs == DepartedRequests(differences.requests, t)
      spot == FilterAwaitingSpot(awaitSpot \o reqs.awaiting, dead)
      insts == DepartedInstances(differences.instances, t, dead, api)
      reason == FilterAwaitingReason(awaitReason \o insts.awaiting, dead, api)
  IN  [ events |-> reqs.events \o spot.events \o insts.events \o reason.events,
        awaitingSpotFulfilmentStatus |-> spot.kept,
        awaitingStateReason |-> reason.kept ]

----------------------------------------------------------------------------
(* The in-flight tracker *)

knownSpotInstanceRequestIds(api) ==
  RequestIds(api.requests)
    \cup {api.instances[i].SpotInstanceRequestId : i \in 1..Len(api.instances)}

(* _trackNewSpotRequest without its push *)
TrackNothing(internal, api, sr) == internal

(* _trackNewSpotRequest: sr is pushed unless EC2 state already knows its id *)
_trackNewSpotRequest(internal, api, sr) ==
  IF sr.request.SpotInstanceRequestId \notin knownSpotInstanceRequestIds(api)
  THEN Append(internal,
              [sr EXCEPT !.request =
                 @ @@ [Region |-> sr.bid.region, WorkerType |-> sr.workerType]])
  ELSE internal

reportEc2ApiLag(request, didShow, t) ==
  [ kind |-> "ec2_api_lag",
    id |-> request.request.SpotInstanceRequestId,
    region |-> request.request.Region,
    instanceType |-> request.request.LaunchSpecification.InstanceType,
    workerType |-> request.request.WorkerType,
    didShow |-> didShow,
    lag |-> t - request.submitted ]

(* The filter with > for >= in the test of the age *)
InternalKeptStrict(request, allKnownSrIds, t) ==
  IF request.request.SpotInstanceRequestId \in allKnownSrIds
  THEN FALSE
  ELSE IF t - request.submitted > InFlightMinutes THEN FALSE ELSE TRUE

(* The filter without the test of the age *)
InternalKeptUnseen(request, allKnownSrIds, t) ==
  request.request.SpotInstanceRequestId \notin allKnownSrIds

(* The filter of _reconcileInternalState, for one tracked request *)
InternalKept(request, allKnownSrIds, t) ==
  IF request.request.SpotInstanceRequestId \in allKnownSrIds
  THEN FALSE
  ELSE IF t - request.submitted >= InFlightMinutes THEN FALSE ELSE TRUE

InternalEvent(request, allKnownSrIds, t) ==
  IF request.request.SpotInstanceRequestId \in allKnownSrIds
  THEN <<reportEc2ApiLag(request, 0, t)>>
  ELSE IF t - request.submitted >= InFlightMinutes
  THEN <<reportEc2ApiLag(request, 1, t)>>
  ELSE <<>>

_reconcileInternalState(internal, api, t) ==
  LET allKnownSrIds == knownSpotInstanceRequestIds(api)
  IN  [ internalState |->
          SelectSeq(internal, LAMBDA r : InternalKept(r, allKnownSrIds, t)),
        events |->
          Concat([i \in 1..Len(internal) |->
                    InternalEvent(internal[i], allKnownSrIds, t)],
                 [i \in 1..Len(internal) |-> i]) ]

(* killCancel(region, instances, requests): the EC2 calls it issues, one   *)
(* terminateInstances call and one cancelSpotInstanceRequests call, each   *)
(* only if its id list is not empty                                        *)
killCancel(region, instances, requests) ==
  (IF Len(instances) > 0
   THEN <<[ op |-> "terminateInstances", region |-> region,
            InstanceIds |-> instances ]>>
   ELSE <<>>)
  \o (IF Len(requests) > 0
      THEN <<[ op |-> "cancelSpotInstanceRequests", region |-> region,
               SpotInstanceRequestIds |-> requests ]>>
      ELSE <<>>)

handleStalledRequests(spotReqs) ==
  Concat([r \in DOMAIN spotReqs |->
            killCancel(r, <<>>, [i \in 1..Len(spotReqs[r]) |->
                                    spotReqs[r][i].SpotInstanceRequestId])],
         regions)


----------------------------------------------------------------------------
(* Capacity counting *)

(* The worker type definitions: the instance types each one lists, with    *)
(* the capacity of each.                                                   *)
WorkerTypes ==
  { [ workerType |-> "w1",
      instanceTypes |-> << [instanceType |-> "t1", capacity |-> 1],
                           [instanceType |-> "t2", capacity |-> 2] >> ],
    [ workerType |-> "w2",
      instanceTypes |-> << [instanceType |-> "t1", capacity |-> 1] >> ] }

(* workerType.capacityOfType(instanceType): the capacity the worker type   *)
(* lists for the instance type; it throws when the type is not listed.     *)
capacityOfType(workerType, instanceType) ==
  LET listed == SelectSeq(workerType.instanceTypes,
                          LAMBDA t : t.instanceType = instanceType)
  IN  IF listed = <<>> THEN [threw |-> TRUE, capacity |-> 0]
      ELSE [threw |-> FALSE, capacity |-> Head(listed).capacity]

(* obj.InstanceType: undefined on an object that has no such property *)
InstanceTypeProperty(obj) ==
  IF "InstanceType" \in DOMAIN obj THEN obj.InstanceType ELSE "undefined"

(* try { capacity += workerType.capacityOfType(type) } catch { capacity++ } *)
CapacityOrOne(workerType, instanceType) ==
  LET c == capacityOfType(workerType, instanceType)
  IN  IF c.threw THEN 1 ELSE c.capacity

instancesOfType(api, workerType) ==
  SelectSeq(api.instances, LAMBDA i : i.WorkerType = workerType)

requestsOfType(api, workerType) ==
  SelectSeq(api.requests, LAMBDA q : q.WorkerType = workerType)

RECURSIVE SumSeq(_)
SumSeq(s) == IF s = <<>> THEN 0 ELSE Head(s) + SumSeq(Tail(s))

(* The in-flight requests capacityForType counts *)
InFlightCounted(workerType, internal) == internal

capacityForType(workerType, states, api, internal) ==
  LET instances == instancesOfType(api, workerType.workerType)
      requests == requestsOfType(api, workerType.workerType)
      inFlight == InFlightCounted(workerType, internal)
  IN  SumSeq([i \in 1..Len(instances) |->
                IF instances[i].State.Name \in states
                THEN CapacityOrOne(workerType, instances[i].InstanceType)
                ELSE 0])
      + SumSeq([i \in 1..Len(requests) |->
                  IF "spotReq" \in states
                  THEN CapacityOrOne(workerType, InstanceTypeProperty(requests[i]))
                  ELSE 0])
      + SumSeq([i \in 1..Len(inFlight) |->
                  IF "spotReq" \in states
                  THEN CapacityOrOne(workerType,
                                     InstanceTypeProperty(inFlight[i].request))
                  ELSE 0])

----------------------------------------------------------------------------
(* The state after the constructor, with nothing submitted to EC2 yet      *)

EmptyState == [instances |-> <<>>, requests |-> <<>>]
NoRequests == [r \in RegionSet |-> [SpotInstanceRequests |-> <<>>]]
NoCall == [op |-> "none"]

InitManager ==
  /\ apiState = EmptyState
  /\ previousApiState = EmptyState
  /\ deadState = EmptyState
  /\ internalState = <<>>
  /\ awaitingStateReason = <<>>
  /\ awaitingSpotFulfilmentStatus = <<>>
  /\ pc = "idle"
  /\ livingSpotRequests = NoRequests
  /\ cancelCalls = <<>>
  /\ events = <<>>

(* The key pairs of the worker types are in place in every region; the     *)
(* constructor starts with an empty cache of them                          *)
KeyPairName(workerName) == keyPrefix \o workerName
WorkerNames == {"w1", "w2"}
AllKeyPairs == {<<r, KeyPairName(n)>> : r \in RegionSet, n \in WorkerNames}

InitKiller ==
  /\ keyPairs = AllKeyPairs
  /\ knownKeyPairs = <<>>
  /\ killCalls = <<>>
  /\ keyPairCalls = <<>>

killerVars == <<keyPairs, knownKeyPairs, killCalls, keyPairCalls>>

Init ==
  /\ now = 0
  /\ ec2Requests = <<>>
  /\ InitManager
  /\ call = NoCall
  /\ result = NoCall
  /\ InitKiller

managerVars == <<apiState, previousApiState, deadState, internalState,
                 awaitingStateReason, awaitingSpotFulfilmentStatus>>
pureVars == <<call, result>>

(* No call is in progress: one iteration runs at a time, and its bids are  *)
(* placed after its update() has settled.  pc tells how the last call      *)
(* settled, until the next step is taken.                                  *)
Idle == pc \in {"idle", "resolved", "rejected", "bid-resolved", "bid-rejected"}

(* What is kept of the last update() is dropped with the next step *)
Forget ==
  /\ livingSpotRequests' = NoRequests
  /\ cancelCalls' = <<>>
  /\ events' = <<>>

(* Time passes, between the calls *)
Tick ==
  /\ Idle
  /\ now + TickMinutes <= MaxTicks * TickMinutes
  /\ now' = now + TickMinutes
  /\ pc' = "idle"
  /\ Forget
  /\ UNCHANGED <<ec2Requests, managerVars, pureVars, killerVars>>

----------------------------------------------------------------------------
(* requestSpotInstance(launchInfo, bid) *)

NewEc2Request(b) ==
  [ SpotInstanceRequestId |-> Len(ec2Requests) + 1,
    State |-> "open",
    Code |-> "pending-evaluation",
    CreateTime |-> now,
    workerType |-> b.workerType,
    InstanceType |-> b.type,
    Region |-> b.region,
    SpotPrice |-> NumberToString(b.price),
    visible |-> FALSE,
    iState |-> "none",
    iReason |-> "" ]

(* ec2.requestSpotInstances resolves: the request exists, and is tracked   *)
RequestSpotInstanceResolves(b) ==
  /\ Idle
  /\ Len(ec2Requests) < MaxBids
  /\ b.region \in RegionSet
  /\ LET q == NewEc2Request(b)
         info == [ workerType |-> b.workerType,
                   request |-> SpotRequestView(q, FALSE),
                   bid |-> b,
                   submitted |-> now ]
     IN  /\ ec2Requests' = Append(ec2Requests, q)
         /\ internalState' = _trackNewSpotRequest(internalState, apiState, info)
  /\ pc' = "bid-resolved"
  /\ Forget
  /\ UNCHANGED <<now, apiState, previousApiState, deadState, awaitingStateReason,
                 awaitingSpotFulfilmentStatus, pureVars, killerVars>>

(* ec2.requestSpotInstances rejects: the later steps of the chain are      *)
(* skipped                                                                 *)
RequestSpotInstanceRejects(b) ==
  /\ Idle
  /\ b.region \in RegionSet
  /\ pc' = "bid-rejected"
  /\ Forget
  /\ UNCHANGED <<now, ec2Requests, managerVars, pureVars, killerVars>>

----------------------------------------------------------------------------
(* EC2 moves on by itself, between the calls *)

Ec2Step(k, q) ==
  /\ Idle
  /\ ec2Requests' = [ec2Requests EXCEPT ![k] = q]
  /\ pc' = "idle"
  /\ Forget
  /\ UNCHANGED <<now, managerVars, pureVars, killerVars>>

Ec2Shows(k) ==
  /\ ~ec2Requests[k].visible
  /\ Ec2Step(k, [ec2Requests[k] EXCEPT !.visible = TRUE])

Ec2ChangesStatus(k) ==
  /\ ec2Requests[k].visible
  /\ ec2Requests[k].State = "open"
  /\ ec2Requests[k].Code = "pending-evaluation"
  /\ Ec2Step(k, [ec2Requests[k] EXCEPT !.Code = "price-too-low"])

Ec2Fulfils(k) ==
  /\ ec2Requests[k].visible
  /\ ec2Requests[k].State = "open"
  /\ Ec2Step(k, [ec2Requests[k] EXCEPT !.State = "active", !.Code = "fulfilled",
                                       !.iState = "running"])

Ec2Fails(k) ==
  /\ ec2Requests[k].visible
  /\ ec2Requests[k].State = "open"
  /\ Ec2Step(k, [ec2Requests[k] EXCEPT !.State = "failed", !.Code = "bad-parameters"])

Ec2Terminates(k, reason) ==
  /\ ec2Requests[k].iState = "running"
  /\ Ec2Step(k, [ec2Requests[k] EXCEPT !.iState = "terminated", !.iReason = reason])

Ec2GivesReason(k, reason) ==
  /\ ec2Requests[k].iState = "terminated"
  /\ ec2Requests[k].iReason = ""
  /\ Ec2Step(k, [ec2Requests[k] EXCEPT !.iReason = reason])

----------------------------------------------------------------------------
(* update() *)

(* update() that stores the last snapshot before its describe calls settle *)
UpdateDescribeRejectsStored ==
  /\ Idle
  /\ pc' = "rejected"
  /\ Forget
  /\ previousApiState' = apiState
  /\ UNCHANGED <<now, ec2Requests, apiState, deadState, internalState,
                 awaitingStateReason, awaitingSpotFulfilmentStatus,
                 pureVars, killerVars>>

(* update() is called and one of its four describe calls rejects: no step  *)
(* of the chain runs                                                       *)
UpdateDescribeRejects ==
  /\ Idle
  /\ pc' = "rejected"
  /\ Forget
  /\ UNCHANGED <<now, ec2Requests, managerVars, pureVars, killerVars>>

(* The requests that are not open any more and whose view may lag *)
MayLag == {k \in 1..Len(ec2Requests) : ec2Requests[k].State = "active"}

(* The iteration counts of the awaiting lists are followed up to           *)
(* MaxIterations                                                           *)
IterationsFollowed ==
  /\ \A i \in 1..Len(awaitingSpotFulfilmentStatus) :
       awaitingSpotFulfilmentStatus[i].iterationCount < MaxIterations
  /\ \A i \in 1..Len(awaitingStateReason) :
       awaitingStateReason[i].iterationCount < MaxIterations

(* update() is called and its four describe calls resolve: the first step  *)
(* of the chain, up to the cancel calls of handleStalledRequests.  With    *)
(* canLag, the describe call of the dead spot requests may return a        *)
(* lagging view.                                                           *)
UpdateStep(canLag) ==
  /\ Idle
  /\ \E lag \in (IF canLag THEN SUBSET MayLag ELSE {{}}) :
       LET livingInstances == describeInstances({"running", "pending"})
           living == describeSpotInstanceRequests({"open"}, {})
           deadInstances == describeInstances({"shutting-down", "terminated", "stopping"})
           res3 == describeSpotInstanceRequests(
                     {"cancelled", "failed", "closed", "active"}, lag)
           deadSpotRequests == [r \in DOMAIN res3 |-> res3[r].SpotInstanceRequests]
           filteredSpotRequests == _filterSpotRequests(living, now)
           newApi == _classify(livingInstances, filteredSpotRequests.good)
           newDead == _classify(deadInstances, deadSpotRequests)
           stateDifferences == _compareStates(newApi, apiState, newDead)
           reconciled == _reconcileStateDifferences(
                           stateDifferences, newDead, newApi,
                           awaitingSpotFulfilmentStatus, awaitingStateReason, now)
       IN  /\ livingSpotRequests' = living
           /\ previousApiState' = apiState
           /\ apiState' = newApi
           /\ deadState' = newDead
           /\ awaitingSpotFulfilmentStatus' = reconciled.awaitingSpotFulfilmentStatus
           /\ awaitingStateReason' = reconciled.awaitingStateReason
           /\ events' = filteredSpotRequests.events \o reconciled.events
           /\ cancelCalls' = handleStalledRequests(filteredSpotRequests.stalled)
  /\ pc' = "cancelling"
  /\ UNCHANGED <<now, ec2Requests, internalState, pureVars, killerVars>>

(* That step, while the iteration counts are followed *)
UpdateDescribed(canLag) ==
  /\ IterationsFollowed
  /\ UpdateStep(canLag)

(* EC2 after the cancel calls numbered in done have been carried out *)
Ec2AfterCancel(done) ==
  LET ids == UNION {Range(cancelCalls[i].SpotInstanceRequestIds) : i \in done}
  IN  [k \in 1..Len(ec2Requests) |->
         IF k \in ids /\ ec2Requests[k].State = "open"
         THEN [ec2Requests[k] EXCEPT !.State = "cancelled",
                                     !.Code = "canceled-before-fulfillment"]
         ELSE ec2Requests[k]]

(* Every cancel call resolves: the second step, _reconcileInternalState *)
UpdateResolves ==
  /\ pc = "cancelling"
  /\ ec2Requests' = Ec2AfterCancel(1..Len(cancelCalls))
  /\ LET swept == _reconcileInternalState(internalState, apiState, now)
     IN  /\ internalState' = swept.internalState
         /\ events' = events \o swept.events
  /\ pc' = "resolved"
  /\ UNCHANGED <<now, apiState, previousApiState, deadState, awaitingStateReason,
                 awaitingSpotFulfilmentStatus, livingSpotRequests, cancelCalls,
                 pureVars, killerVars>>

(* A cancel call rejects, and the second step is taken all the same *)
UpdateCancelRejectsSwept ==
  /\ pc = "cancelling"
  /\ \E failed \in SUBSET (1..Len(cancelCalls)) :
       /\ failed # {}
       /\ ec2Requests' = Ec2AfterCancel((1..Len(cancelCalls)) \ failed)
  /\ LET swept == _reconcileInternalState(internalState, apiState, now)
     IN  /\ internalState' = swept.internalState
         /\ events' = events \o swept.events
  /\ pc' = "rejected"
  /\ UNCHANGED <<now, apiState, previousApiState, deadState, awaitingStateReason,
                 awaitingSpotFulfilmentStatus, livingSpotRequests, cancelCalls,
                 pureVars, killerVars>>

(* Some cancel call rejects: update() rejects and the second step is       *)
(* skipped                                                                 *)
UpdateCancelRejects ==
  /\ pc = "cancelling"
  /\ \E failed \in SUBSET (1..Len(cancelCalls)) :
       /\ failed # {}
       /\ ec2Requests' = Ec2AfterCancel((1..Len(cancelCalls)) \ failed)
  /\ pc' = "rejected"
  /\ UNCHANGED <<now, managerVars, livingSpotRequests, cancelCalls, events,
                 pureVars, killerVars>>

----------------------------------------------------------------------------
(* The manager over time: bids, the tracker and the stalled requests, with *)
(* EC2 showing, repricing and fulfilling the requests.                     *)
Next ==
  \/ Tick
  \/ \E b \in BidInputs : RequestSpotInstanceResolves(b)
  \/ \E b \in BidInputs : RequestSpotInstanceRejects(b)
  \/ \E k \in 1..Len(ec2Requests) : Ec2Shows(k)
  \/ \E k \in 1..Len(ec2Requests) : Ec2ChangesStatus(k)
  \/ \E k \in 1..Len(ec2Requests) : Ec2Fulfils(k)
  \/ UpdateDescribeRejects
  \/ UpdateDescribed(FALSE)
  \/ UpdateResolves
  \/ UpdateCancelRejects

Spec == Init /\ [][Next]_vars

(* The manager against the whole life of a request and of its instance,    *)
(* with describe calls that may lag, at one instant: no request stalls.    *)
NextDiff ==
  \/ \E b \in BidInputs : RequestSpotInstanceResolves(b)
  \/ \E k \in 1..Len(ec2Requests) : Ec2Shows(k)
  \/ \E k \in 1..Len(ec2Requests) : Ec2Fulfils(k)
  \/ \E k \in 1..Len(ec2Requests) : Ec2Fails(k)
  \/ \E k \in 1..Len(ec2Requests), reason \in Ec2Reasons \cup {""} :
       Ec2Terminates(k, reason)
  \/ \E k \in 1..Len(ec2Requests), reason \in Ec2Reasons : Ec2GivesReason(k, reason)
  \/ UpdateDescribed(TRUE)
  \/ UpdateResolves

SpecDiff == Init /\ [][NextDiff]_vars

(* The request of bid b, numbered id, in EC2: open, or fulfilled with its  *)
(* instance running                                                        *)
Ec2RequestOf(b, id, state) ==
  [ SpotInstanceRequestId |-> id,
    State |-> state,
    Code |-> IF state = "open" THEN "pending-evaluation" ELSE "fulfilled",
    CreateTime |-> 0,
    workerType |-> b.workerType,
    InstanceType |-> b.type,
    Region |-> b.region,
    SpotPrice |-> NumberToString(b.price),
    visible |-> TRUE,
    iState |-> IF state = "open" THEN "none" ELSE "running",
    iReason |-> "" ]

----------------------------------------------------------------------------
(* The lists of departures awaiting resolution, followed for as long as    *)
(* the manager keeps them: one request, open or fulfilled, is in the       *)
(* snapshot; time passes, its instance terminates, EC2 gives the reason    *)
(* at once, later or never, and update() runs again and again.             *)

InitAwaiting ==
  /\ now = 0
  /\ \E b \in BidInputs, state \in {"open", "active"} :
       ec2Requests = << Ec2RequestOf(b, 1, state) >>
  /\ LET living == describeSpotInstanceRequests({"open"}, {})
     IN  apiState = _classify(describeInstances({"running", "pending"}),
                              [r \in RegionSet |-> living[r].SpotInstanceRequests])
  /\ previousApiState = EmptyState
  /\ deadState = EmptyState
  /\ internalState = <<>>
  /\ awaitingStateReason = <<>>
  /\ awaitingSpotFulfilmentStatus = <<>>
  /\ pc = "idle"
  /\ livingSpotRequests = NoRequests
  /\ cancelCalls = <<>>
  /\ events = <<>>
  /\ call = NoCall
  /\ result = NoCall
  /\ InitKiller

NextAwaiting ==
  \/ Tick
  \/ \E k \in 1..Len(ec2Requests) : Ec2Fulfils(k)
  \/ \E k \in 1..Len(ec2Requests), reason \in Ec2Reasons \cup {""} :
       Ec2Terminates(k, reason)
  \/ \E k \in 1..Len(ec2Requests), reason \in Ec2Reasons : Ec2GivesReason(k, reason)
  \/ UpdateStep(TRUE)
  \/ UpdateResolves

SpecAwaiting == InitAwaiting /\ [][NextAwaiting]_vars

(* The instance of one fulfilled request, from the snapshot that holds it  *)
(* on: it terminates, EC2 gives the reason at once, later or never, and    *)
(* update() runs again and again, at one instant and without lag.          *)
InitReason ==
  /\ InitAwaiting
  /\ ec2Requests[1].State = "active"

NextReason ==
  \/ \E k \in 1..Len(ec2Requests), reason \in Ec2Reasons \cup {""} :
       Ec2Terminates(k, reason)
  \/ \E k \in 1..Len(ec2Requests), reason \in Ec2Reasons : Ec2GivesReason(k, reason)
  \/ UpdateStep(FALSE)
  \/ UpdateResolves

(* The provisioner calls update() in every iteration, for as long as it    *)
(* runs: a call that can be made is made, and a call under way settles.    *)
SpecReasonFair ==
  /\ InitReason
  /\ [][NextReason]_vars
  /\ WF_vars(UpdateStep(FALSE))
  /\ WF_vars(UpdateResolves)

----------------------------------------------------------------------------
(* _filterSpotRequests on its own: one open request of any status code and *)
(* age is described and filtered.                                          *)

FilterCodes ==
  { "capacity-not-available", "capacity-oversubscribed", "price-too-low",
    "not-scheduled-yet", "launch-group-constraint", "az-group-constraint",
    "placement-group-constraint", "constraint-not-fulfillable",
    "pending-evaluation", "pending-fulfillment" }
FilterCreateTimes == {0, 1}
FilterNows == {20, 21, 22}

InitFilter ==
  /\ now \in FilterNows
  /\ \E b \in BidInputs, code \in FilterCodes, created \in FilterCreateTimes :
       ec2Requests = << [ SpotInstanceRequestId |-> 1,
                          State |-> "open",
                          Code |-> code,
                          CreateTime |-> created,
                          workerType |-> b.workerType,
                          InstanceType |-> b.type,
                          Region |-> b.region,
                          SpotPrice |-> NumberToString(b.price),
                          visible |-> TRUE,
                          iState |-> "none",
                          iReason |-> "" ] >>
  /\ InitManager
  /\ call = NoCall
  /\ result = NoCall
  /\ InitKiller

FilterCall ==
  /\ call = NoCall
  /\ LET spotReqs == describeSpotInstanceRequests({"open"}, {})
     IN  /\ call' = [op |-> "_filterSpotRequests", spotReqs |-> spotReqs]
         /\ result' = _filterSpotRequests(spotReqs, now)
  /\ UNCHANGED <<now, ec2Requests, managerVars, pc, livingSpotRequests,
                 cancelCalls, events, killerVars>>

SpecFilter == InitFilter /\ [][FilterCall]_vars

----------------------------------------------------------------------------
(* capacityForType on its own, over the snapshots and trackers that bids   *)
(* of the worker types leave.                                              *)

(* The tracker entry of bid b, numbered id *)
TrackedOf(b, id) ==
  Head(_trackNewSpotRequest(
         <<>>, EmptyState,
         [ workerType |-> b.workerType,
           request |-> SpotRequestView(Ec2RequestOf(b, id, "open"), FALSE),
           bid |-> b,
           submitted |-> 0 ]))

SeqsUpTo(S, n) == UNION {[1..m -> S] : m \in 0..n}

InitCapacity ==
  /\ now = 0
  /\ \E bs \in SeqsUpTo(BidInputs \X {"open", "active"}, MaxInFlight) :
       ec2Requests = [i \in 1..Len(bs) |-> Ec2RequestOf(bs[i][1], i, bs[i][2])]
  /\ LET living == describeSpotInstanceRequests({"open"}, {})
     IN  apiState = _classify(describeInstances({"running", "pending"}),
                              [r \in RegionSet |-> living[r].SpotInstanceRequests])
  /\ \E bs \in SeqsUpTo(BidInputs, MaxInFlight) :
       internalState = [i \in 1..Len(bs) |-> TrackedOf(bs[i], MaxInFlight + i)]
  /\ previousApiState = EmptyState
  /\ deadState = EmptyState
  /\ awaitingStateReason = <<>>
  /\ awaitingSpotFulfilmentStatus = <<>>
  /\ pc = "idle"
  /\ livingSpotRequests = NoRequests
  /\ cancelCalls = <<>>
  /\ events = <<>>
  /\ call = NoCall
  /\ result = NoCall
  /\ InitKiller

CapacityStates == {{"running", "pending", "spotReq"}, {"running", "pending"}}

CapacityCall(workerType, states) ==
  /\ call = NoCall
  /\ call' = [op |-> "capacityForType", workerType |-> workerType, states |-> states]
  /\ result' = capacityForType(workerType, states, apiState, internalState)
  /\ UNCHANGED <<now, ec2Requests, managerVars, pc, livingSpotRequests,
                 cancelCalls, events, killerVars>>

NextCapacity ==
  \E workerType \in WorkerTypes, states \in CapacityStates :
    CapacityCall(workerType, states)

SpecCapacity == InitCapacity /\ [][NextCapacity]_vars

----------------------------------------------------------------------------
(* rougeKiller(configuredWorkers), with deleteKeyPair and killByName *)

PushNew(list, x) == IF x \in Range(list) THEN list ELSE Append(list, x)

RECURSIVE PushAllNew(_, _)
PushAllNew(list, xs) ==
  IF xs = <<>> THEN list ELSE PushAllNew(PushNew(list, Head(xs)), Tail(xs))

(* knownWorkerTypes without the worker types of the in-flight tracker *)
knownWorkerTypesInSnapshot(api, internal) ==
  PushAllNew(
    PushAllNew(<<>>, [i \in 1..Len(api.instances) |-> api.instances[i].WorkerType]),
    [i \in 1..Len(api.requests) |-> api.requests[i].WorkerType])

(* knownWorkerTypes: the worker types of the instances and of the requests *)
(* of the snapshot and of the in-flight tracker, each once                 *)
knownWorkerTypes(api, internal) ==
  PushAllNew(
    PushAllNew(
      PushAllNew(<<>>, [i \in 1..Len(api.instances) |-> api.instances[i].WorkerType]),
      [i \in 1..Len(api.requests) |-> api.requests[i].WorkerType]),
    [i \in 1..Len(internal) |-> internal[i].request.WorkerType])

DefaultKillStates == {"running", "pending", "spotReq"}

InstanceIdsOf(instances) == [i \in 1..Len(instances) |-> instances[i].InstanceId]
RequestIdsOf(requests) == [i \in 1..Len(requests) |-> requests[i].SpotInstanceRequestId]
TrackedIdsOf(internal) ==
  [i \in 1..Len(internal) |-> internal[i].request.SpotInstanceRequestId]

(* killByName without the requests of the in-flight tracker *)
killByNameUntracked(name, states, api, internal) ==
  LET perRegionKills ==
        [ region \in RegionSet |->
            [ instances |->
                InstanceIdsOf(SelectSeq(api.instances, LAMBDA i :
                  /\ i.WorkerType = name
                  /\ i.State.Name \in states
                  /\ i.Region = region)),
              requests |->
                RequestIdsOf(SelectSeq(api.requests, LAMBDA q :
                  /\ q.WorkerType = name
                  /\ "spotReq" \in states
                  /\ q.Region = region)) ] ]
  IN  Concat([region \in RegionSet |->
                killCancel(region, perRegionKills[region].instances,
                           perRegionKills[region].requests)],
             regions)

(* killByName(name, states): the EC2 calls it issues, region by region *)
killByName(name, states, api, internal) ==
  LET perRegionKills ==
        [ region \in RegionSet |->
            [ instances |->
                InstanceIdsOf(SelectSeq(api.instances, LAMBDA i :
                  /\ i.WorkerType = name
                  /\ i.State.Name \in states
                  /\ i.Region = region)),
              requests |->
                RequestIdsOf(SelectSeq(api.requests, LAMBDA q :
                  /\ q.WorkerType = name
                  /\ "spotReq" \in states
                  /\ q.Region = region))
                \o TrackedIdsOf(SelectSeq(internal, LAMBDA sr :
                     /\ sr.request.WorkerType = name
                     /\ "spotReq" \in states
                     /\ sr.request.Region = region)) ] ]
  IN  Concat([region \in RegionSet |->
                killCancel(region, perRegionKills[region].instances,
                           perRegionKills[region].requests)],
             regions)

(* ec2.describeKeyPairs with a key-name filter, in every region *)
describeKeyPairs(keyName) ==
  [ region \in RegionSet |->
      [ KeyPairs |-> IF <<region, keyName>> \in keyPairs
                     THEN <<[KeyName |-> keyName]>> ELSE <<>> ] ]

(* deleteKeyPair that does not read what describeKeyPairs returned *)
deleteKeyPairEverywhere(workerName, res) ==
  [ i \in 1..Len(regions) |->
      [ op |-> "deleteKeyPair", region |-> regions[i],
        KeyName |-> KeyPairName(workerName) ] ]

(* deleteKeyPair(workerName), once describeKeyPairs has resolved with res: *)
(* the deleteKeyPair calls it issues                                       *)
deleteKeyPair(workerName, res) ==
  LET found == SelectSeq(regions, LAMBDA region : Len(res[region].KeyPairs) > 0)
  IN  [ i \in 1..Len(found) |->
          [ op |-> "deleteKeyPair", region |-> found[i],
            KeyName |-> KeyPairName(workerName) ] ]

(* EC2 after the calls numbered in done, among those issued, have been     *)
(* carried out: a terminated instance stops running, a cancelled request   *)
(* is cancelled (the instance of an active one runs on), a deleted key     *)
(* pair is gone.                                                           *)
IdsOfCalls(issued, done, op) ==
  UNION { IF issued[i].op # op THEN {}
          ELSE IF op = "terminateInstances" THEN Range(issued[i].InstanceIds)
          ELSE Range(issued[i].SpotInstanceRequestIds) : i \in done }

Ec2AfterKill(issued, done) ==
  LET terminated == IdsOfCalls(issued, done, "terminateInstances")
      cancelled == IdsOfCalls(issued, done, "cancelSpotInstanceRequests")
      Terminate(q) ==
        IF q.SpotInstanceRequestId \in terminated /\ q.iState = "running"
        THEN [q EXCEPT !.iState = "terminated",
                       !.iReason = "Client.UserInitiatedShutdown"]
        ELSE q
      Cancel(q) ==
        IF q.SpotInstanceRequestId \in cancelled /\ q.State \in {"open", "active"}
        THEN [q EXCEPT !.State = "cancelled",
                       !.Code = IF q.State = "open"
                                THEN "canceled-before-fulfillment"
                                ELSE "request-canceled-and-instance-running"]
        ELSE q
  IN  [k \in 1..Len(ec2Requests) |-> Cancel(Terminate(ec2Requests[k]))]

KeyPairsAfterKill(issued, done) ==
  keyPairs \ { <<issued[i].region, issued[i].KeyName>> :
                 i \in {j \in done : issued[j].op = "deleteKeyPair"} }

(* The worker types that rougeKiller finds rouge *)
(* Every worker type known in state, configured or not *)
RougeWorkersAll(configuredWorkers) == knownWorkerTypes(apiState, internalState)

RougeWorkers(configuredWorkers) ==
  SelectSeq(knownWorkerTypes(apiState, internalState),
            LAMBDA name : name \notin configuredWorkers)

(* The runs of rougeKiller that are followed: a first one, and the ones    *)
(* that repeat it with the same set right after it has resolved            *)
RunFollowed(configuredWorkers) ==
  \/ call.op = "none"
  \/ /\ call.op = "rougeKiller"
     /\ call.run < MaxRuns
     /\ pc = "resolved"
     /\ call.configuredWorkers = configuredWorkers

(* rougeKiller(configuredWorkers) is called and settles.  For every rouge  *)
(* worker type, describeKeyPairs is called and the calls of killByName are *)
(* issued at once; the deleteKeyPair calls follow for the worker types in  *)
(* described, whose describeKeyPairs call resolves.  The calls numbered in *)
(* failed reject; at most MaxFailedCalls calls reject, the describe calls  *)
(* among them.  The promise resolves if no call rejects.                   *)
RougeKiller(configuredWorkers) ==
  /\ Idle
  /\ RunFollowed(configuredWorkers)
  /\ LET rouge == RougeWorkers(configuredWorkers)
         kills == Concat([i \in 1..Len(rouge) |->
                            killByName(rouge[i], DefaultKillStates,
                                       apiState, internalState)],
                         [i \in 1..Len(rouge) |-> i])
     IN  \E described \in SUBSET Range(rouge) :
           LET describes ==
                 [ i \in 1..Len(rouge) |->
                     [ op |-> "describeKeyPairs",
                       KeyName |-> KeyPairName(rouge[i]),
                       resolved |-> rouge[i] \in described ] ]
               deletes ==
                 Concat([i \in 1..Len(rouge) |->
                           IF rouge[i] \in described
                           THEN deleteKeyPair(rouge[i],
                                              describeKeyPairs(KeyPairName(rouge[i])))
                           ELSE <<>>],
                        [i \in 1..Len(rouge) |-> i])
               issued == kills \o deletes
           IN  \E failed \in SUBSET (1..Len(issued)) :
                 LET done == (1..Len(issued)) \ failed
                     Deleted(name) ==
                       /\ name \in described
                       /\ \A i \in failed :
                            issued[i].op = "deleteKeyPair"
                              => issued[i].KeyName # KeyPairName(name)
                 IN  /\ Cardinality(Range(rouge) \ described) + Cardinality(failed)
                          <= MaxFailedCalls
                     /\ ec2Requests' = Ec2AfterKill(issued, done)
                     /\ keyPairs' = KeyPairsAfterKill(issued, done)
                     /\ knownKeyPairs' =
                          SelectSeq(knownKeyPairs, LAMBDA name : ~Deleted(name))
                     /\ killCalls' = describes \o issued
                     /\ pc' = IF described = Range(rouge) /\ failed = {}
                              THEN "resolved" ELSE "rejected"
  /\ call' = [ op |-> "rougeKiller",
               configuredWorkers |-> configuredWorkers,
               run |-> IF call.op = "rougeKiller" THEN call.run + 1 ELSE 1 ]
  /\ Forget
  /\ UNCHANGED <<now, managerVars, result, keyPairCalls>>

(* rougeKiller on its own, over what bids of the worker types leave: each  *)
(* request is in flight (open, tracked and not yet shown by EC2), open in  *)
(* the snapshot, fulfilled with its instance in the snapshot, or fulfilled *)
(* since the snapshot was taken.  The key pairs of the worker types are in *)
(* every region, in the first one only, or in none.                        *)
RougeStates == {"in-flight", "open", "active", "fulfilled-since"}

Ec2RougeRequest(b, id, state) ==
  IF state = "in-flight"
  THEN [Ec2RequestOf(b, id, "open") EXCEPT !.visible = FALSE]
  ELSE Ec2RequestOf(b, id, IF state = "open" THEN "open" ELSE "active")

KeyPairChoices ==
  { {}, {<<regions[1], KeyPairName(name)>> : name \in WorkerNames}, AllKeyPairs }

InitRouge ==
  /\ now = 0
  /\ \E bs \in SeqsUpTo(BidInputs \X RougeStates, MaxInFlight) :
       /\ ec2Requests = [i \in 1..Len(bs) |-> Ec2RougeRequest(bs[i][1], i, bs[i][2])]
       /\ LET seen == [i \in 1..Len(bs) |->
                         Ec2RougeRequest(bs[i][1], i,
                           IF bs[i][2] = "fulfilled-since" THEN "open" ELSE bs[i][2])]
          IN  apiState =
                _classify([r \in RegionSet |->
                             [Reservations |->
                                ReservationsIn(seen, r, {"running", "pending"})]],
                          [r \in RegionSet |-> SpotRequestsIn(seen, r, {"open"}, {})])
       /\ internalState =
            Concat([i \in 1..Len(bs) |->
                      IF bs[i][2] = "in-flight"
                      THEN <<TrackedOf(bs[i][1], i)>> ELSE <<>>],
                   [i \in 1..Len(bs) |-> i])
  /\ keyPairs \in KeyPairChoices
  /\ knownKeyPairs = <<"w1", "w2">>
  /\ killCalls = <<>>
  /\ keyPairCalls = <<>>
  /\ previousApiState = EmptyState
  /\ deadState = EmptyState
  /\ awaitingStateReason = <<>>
  /\ awaitingSpotFulfilmentStatus = <<>>
  /\ pc = "idle"
  /\ livingSpotRequests = NoRequests
  /\ cancelCalls = <<>>
  /\ events = <<>>
  /\ call = NoCall
  /\ result = NoCall

ConfiguredSets == SUBSET WorkerNames

NextRouge == \E configuredWorkers \in ConfiguredSets : RougeKiller(configuredWorkers)

SpecRouge == InitRouge /\ [][NextRouge]_vars

----------------------------------------------------------------------------
(* zombieKiller() *)

maxInstanceLife == "- 96 hours"

IsDigit(c) == c \in {DigitString(d) : d \in 0..9}

RECURSIVE LeadingDigits(_)
LeadingDigits(str) ==
  IF str # "" /\ IsDigit(SubSeq(str, 1, 1))
  THEN 1 + LeadingDigits(SubSeq(str, 2, Len(str))) ELSE 0

RECURSIVE DigitsValue(_)
DigitsValue(str) ==
  IF str = "" THEN 0
  ELSE DigitsValue(SubSeq(str, 1, Len(str) - 1)) * 10
       + DigitValue(SubSeq(str, Len(str), Len(str)))

(* taskcluster.fromNow(str), t being now: the time at the offset that str  *)
(* spells out, as "- 96 hours" or "2 days", from t                         *)
fromNow(str, t) ==
  LET negative == SubSeq(str, 1, 1) = "-"
      rest == IF negative THEN SubSeq(str, 3, Len(str)) ELSE str
      n == LeadingDigits(rest)
      unit == SubSeq(rest, n + 2, Len(rest))
      minutes == CASE unit \in {"minute", "minutes"} -> 1
                   [] unit \in {"hour", "hours"} -> 60
                   [] unit \in {"day", "days"} -> 24 * 60
      offset == DigitsValue(SubSeq(rest, 1, n)) * minutes
  IN  IF negative THEN t - offset ELSE t + offset

HasLaunchTime(instance) == "LaunchTime" \in DOMAIN instance

(* The zombies of zombieKiller at its limit: launched at it or before      *)
ZombiesAtLimit(api, t) ==
  LET killIfOlderThan == fromNow(maxInstanceLife, t)
  IN  SelectSeq(api.instances, LAMBDA instance :
        HasLaunchTime(instance) /\ instance.LaunchTime <= killIfOlderThan)

(* The instances that zombieKiller filters out of the snapshot *)
Zombies(api, t) ==
  LET killIfOlderThan == fromNow(maxInstanceLife, t)
  IN  SelectSeq(api.instances, LAMBDA instance :
        HasLaunchTime(instance) /\ instance.LaunchTime < killIfOlderThan)

(* zombieKiller(): the EC2 calls it issues, one killCancel per region that *)
(* has zombies, in the order the regions come up                           *)
zombieKiller(api, t) ==
  LET found == Zombies(api, t)
      keys == PushAllNew(<<>>, [i \in 1..Len(found) |-> found[i].Region])
      zombies == [ region \in Range(keys) |->
                     InstanceIdsOf(SelectSeq(found, LAMBDA instance :
                                               instance.Region = region)) ]
  IN  Concat([i \in 1..Len(keys) |-> killCancel(keys[i], zombies[keys[i]], <<>>)],
             [i \in 1..Len(keys) |-> i])

(* zombieKiller() is called and settles; the calls numbered in failed      *)
(* reject                                                                  *)
ZombieKiller ==
  /\ Idle
  /\ call = NoCall
  /\ LET issued == zombieKiller(apiState, now)
     IN  \E failed \in SUBSET (1..Len(issued)) :
           /\ Cardinality(failed) <= MaxFailedCalls
           /\ ec2Requests' = Ec2AfterKill(issued, (1..Len(issued)) \ failed)
           /\ killCalls' = issued
           /\ pc' = IF failed = {} THEN "resolved" ELSE "rejected"
  /\ call' = [op |-> "zombieKiller"]
  /\ Forget
  /\ UNCHANGED <<now, managerVars, result, keyPairs, knownKeyPairs, keyPairCalls>>

(* zombieKiller on its own, over snapshots of running instances of all     *)
(* ages around the limit, some of them without a launch time.  The clock   *)
(* stands a little over 100 hours after the first launch.                  *)
ZombieNows == {5999, 6000, 6001}
LaunchTimes == {0, 240, 4800}
LaunchOptions == {<<>>} \cup {<<launched>> : launched \in LaunchTimes}

WithLaunchTime(instance, option) ==
  IF option = <<>> THEN instance
  ELSE instance @@ [LaunchTime |-> option[1]]

InitZombie ==
  /\ now \in ZombieNows
  /\ \E bs \in SeqsUpTo(BidInputs \X LaunchOptions, MaxInFlight) :
       /\ ec2Requests = [i \in 1..Len(bs) |-> Ec2RequestOf(bs[i][1], i, "active")]
       /\ LET api == _classify(describeInstances({"running", "pending"}),
                               [r \in RegionSet |-> <<>>])
          IN  apiState =
                [ api EXCEPT !.instances =
                    [ i \in 1..Len(api.instances) |->
                        WithLaunchTime(api.instances[i],
                                       bs[api.instances[i].InstanceId][2]) ] ]
  /\ previousApiState = EmptyState
  /\ deadState = EmptyState
  /\ internalState = <<>>
  /\ awaitingStateReason = <<>>
  /\ awaitingSpotFulfilmentStatus = <<>>
  /\ pc = "idle"
  /\ livingSpotRequests = NoRequests
  /\ cancelCalls = <<>>
  /\ events = <<>>
  /\ call = NoCall
  /\ result = NoCall
  /\ InitKiller

SpecZombie == InitZombie /\ [][ZombieKiller]_vars

----------------------------------------------------------------------------
(* killCapacityOfWorkerType(workerType, count, states) *)

(* The worker types, each with a minimal capacity *)
MinCapacities == {0, 1}
KillWorkerTypes ==
  {wt @@ [minCapacity |-> m] : wt \in WorkerTypes, m \in MinCapacities}

KillCounts == {0 - 1, 0, 1, 2}

(* shuffle.knuthShuffle(list): any order of the list *)
knuthShuffle(list) ==
  { [i \in 1..Len(list) |-> list[p[i]]] :
      p \in {q \in [1..Len(list) -> 1..Len(list)] :
               \A i, j \in 1..Len(list) : q[i] = q[j] => i = j} }

(* caps[instanceType] || 1, caps holding the capacity of every instance    *)
(* type the worker type lists                                              *)
CapsOrOne(workerType, instanceType) ==
  LET c == capacityOfType(workerType, instanceType)
  IN  IF c.threw \/ c.capacity = 0 THEN 1 ELSE c.capacity

(* The resources the three loops go through, in the order of the loops:    *)
(* the shuffled requests of the snapshot, the in-flight tracker, the       *)
(* shuffled instances of the snapshot.  applies is the test each loop adds *)
(* to cont().                                                              *)
KillCandidates(workerType, states, internal, shuffledRequests, shuffledApiInstances) ==
  (IF "spotReq" \in states
   THEN [ i \in 1..Len(shuffledRequests) |->
            [ kind |-> "request",
              region |-> shuffledRequests[i].Region,
              id |-> shuffledRequests[i].SpotInstanceRequestId,
              cap |-> CapsOrOne(workerType,
                                shuffledRequests[i].LaunchSpecification.InstanceType),
              applies |-> TRUE ] ]
        \o [ i \in 1..Len(internal) |->
               [ kind |-> "in-flight",
                 region |-> internal[i].request.Region,
                 id |-> internal[i].request.SpotInstanceRequestId,
                 cap |-> CapsOrOne(workerType,
                                   internal[i].request.LaunchSpecification.InstanceType),
                 applies |-> internal[i].request.WorkerType = workerType.workerType ] ]
   ELSE <<>>)
  \o [ i \in 1..Len(shuffledApiInstances) |->
         [ kind |-> "instance",
           region |-> shuffledApiInstances[i].Region,
           id |-> shuffledApiInstances[i].InstanceId,
           cap |-> CapsOrOne(workerType, shuffledApiInstances[i].InstanceType),
           applies |-> shuffledApiInstances[i].State.Name \in states ] ]

(* The loops over the candidates.  For the first candidate that passes     *)
(* cont() and its test, capToKill is raised and toKill[region].push is     *)
(* called: toKill[region] is the object {instances, requests}, which has   *)
(* no push, so a TypeError is thrown and the function is left.             *)
RECURSIVE KillScan(_, _, _, _, _)
KillScan(candidates, count, capacity, minCapacity, capToKill) ==
  IF candidates = <<>>
  THEN [threw |-> FALSE, capToKill |-> capToKill, picked |-> <<>>]
  ELSE LET c == Head(candidates)
           cont == count <= capToKill /\ capacity - capToKill >= minCapacity
       IN  IF cont /\ c.applies
           THEN [threw |-> TRUE, capToKill |-> capToKill + c.cap, picked |-> <<c>>]
           ELSE KillScan(Tail(candidates), count, capacity, minCapacity, capToKill)

(* killCapacityOfWorkerType: what it picks, whether it throws, and the EC2 *)
(* calls it issues from toKill, whose lists nothing was ever pushed to     *)
killCapacityOfWorkerType(workerType, count, states, api, internal, shuffledRequests, shuffledApiInstances) ==
  LET capacity == capacityForType(workerType, states, api, internal)
      scan == KillScan(KillCandidates(workerType, states, internal,
                                      shuffledRequests, shuffledApiInstances),
                       count, capacity, workerType.minCapacity, 0)
      toKill == [region \in RegionSet |-> [instances |-> <<>>, requests |-> <<>>]]
  IN  [ threw |-> scan.threw,
        capacity |-> capacity,
        capToKill |-> scan.capToKill,
        picked |-> scan.picked,
        calls |-> IF scan.threw THEN <<>>
                  ELSE Concat([region \in RegionSet |->
                                 IF Len(toKill[region].instances)
                                      + Len(toKill[region].requests) > 0
                                 THEN killCancel(region, toKill[region].instances,
                                                 toKill[region].requests)
                                 ELSE <<>>],
                              regions) ]

KillCapacityCall(workerType, count, states) ==
  /\ call = NoCall
  /\ \E shuffledRequests \in knuthShuffle(requestsOfType(apiState, workerType.workerType)),
        shuffledApiInstances \in knuthShuffle(instancesOfType(apiState, workerType.workerType)) :
       /\ call' = [ op |-> "killCapacityOfWorkerType", workerType |-> workerType,
                    count |-> count, states |-> states,
                    candidates |-> KillCandidates(workerType, states, internalState,
                                                  shuffledRequests, shuffledApiInstances) ]
       /\ result' = killCapacityOfWorkerType(workerType, count, states, apiState,
                                             internalState, shuffledRequests,
                                             shuffledApiInstances)
  /\ killCalls' = result'.calls
  /\ UNCHANGED <<now, ec2Requests, managerVars, pc, livingSpotRequests,
                 cancelCalls, events, keyPairs, knownKeyPairs, keyPairCalls>>

NextKillCapacity ==
  \E workerType \in KillWorkerTypes, count \in KillCounts, states \in CapacityStates :
    KillCapacityCall(workerType, count, states)

(* killCapacityOfWorkerType on its own, over the snapshots and trackers    *)
(* that bids of the worker types leave                                     *)
SpecKillCapacity == InitCapacity /\ [][NextKillCapacity]_vars

----------------------------------------------------------------------------
(* createKeyPair(workerName) and deleteKeyPair(workerName), step by step *)

MaxKeyPairCalls == 2

(* createKeyPair that does not read what describeKeyPairs returned *)
createKeyPairEverywhere(workerName, res) ==
  [ i \in 1..Len(regions) |->
      [ op |-> "importKeyPair", region |-> regions[i],
        KeyName |-> KeyPairName(workerName) ] ]

(* createKeyPair(workerName), once describeKeyPairs has resolved with res: *)
(* the importKeyPair calls it issues                                       *)
createKeyPair(workerName, res) ==
  LET missing == SelectSeq(regions, LAMBDA region : Len(res[region].KeyPairs) = 0)
  IN  [ i \in 1..Len(missing) |->
          [ op |-> "importKeyPair", region |-> missing[i],
            KeyName |-> KeyPairName(workerName) ] ]

RegionsOfCalls(calls) == {calls[i].region : i \in 1..Len(calls)}

(* The calls about workerName are all settled and no EC2 call of theirs is *)
(* still under way                                                         *)
KeyPairCallsAtRest(workerName) ==
  \A i \in 1..Len(keyPairCalls) :
    keyPairCalls[i].workerName = workerName =>
      /\ keyPairCalls[i].pc \in {"resolved", "rejected"}
      /\ keyPairCalls[i].pending = {}

(* The EC2 calls that have failed for another reason than EC2's state      *)
ErrorsInjected ==
  SumSeq([i \in 1..Len(keyPairCalls) |-> keyPairCalls[i].injected])

MayStartKeyPairCall(workerName, concurrent) ==
  /\ Len(keyPairCalls) < MaxKeyPairCalls
  /\ concurrent \/ KeyPairCallsAtRest(workerName)

KeyPairCall(op, workerName, cached) ==
  [ op |-> op, workerName |-> workerName,
    pc |-> IF cached THEN "resolved" ELSE "describing",
    miss |-> ~cached,
    res |-> [region \in RegionSet |-> [KeyPairs |-> <<>>]],
    issued |-> {}, pending |-> {}, failed |-> FALSE, injected |-> 0 ]

keyPairFrame == <<now, ec2Requests, managerVars, pc, livingSpotRequests,
                  cancelCalls, events, pureVars, killCalls>>

(* createKeyPair is called: with the worker type in the cache it resolves  *)
(* at once, otherwise describeKeyPairs is called in every region           *)
CreateKeyPair(workerName, concurrent) ==
  /\ MayStartKeyPairCall(workerName, concurrent)
  /\ keyPairCalls' = Append(keyPairCalls,
                            KeyPairCall("createKeyPair", workerName,
                                        workerName \in Range(knownKeyPairs)))
  /\ UNCHANGED <<keyPairs, knownKeyPairs, keyPairFrame>>

(* deleteKeyPair is called: describeKeyPairs is called *)
DeleteKeyPair(workerName, concurrent) ==
  /\ MayStartKeyPairCall(workerName, concurrent)
  /\ keyPairCalls' = Append(keyPairCalls,
                            KeyPairCall("deleteKeyPair", workerName, FALSE))
  /\ UNCHANGED <<keyPairs, knownKeyPairs, keyPairFrame>>

(* describeKeyPairs resolves for call i with the key pairs EC2 holds, and  *)
(* the importKeyPair or deleteKeyPair calls are issued                     *)
DescribeKeyPairsResolves(i) ==
  /\ keyPairCalls[i].pc = "describing"
  /\ LET c == keyPairCalls[i]
         res == describeKeyPairs(KeyPairName(c.workerName))
         calls == IF c.op = "createKeyPair"
                  THEN createKeyPair(c.workerName, res)
                  ELSE deleteKeyPair(c.workerName, res)
     IN  keyPairCalls' = [keyPairCalls EXCEPT ![i] =
                            [c EXCEPT !.pc = "calling", !.res = res,
                                      !.issued = RegionsOfCalls(calls),
                                      !.pending = RegionsOfCalls(calls)]]
  /\ UNCHANGED <<keyPairs, knownKeyPairs, keyPairFrame>>

DescribeKeyPairsRejects(i) ==
  /\ keyPairCalls[i].pc = "describing"
  /\ ErrorsInjected < MaxFailedCalls
  /\ keyPairCalls' = [keyPairCalls EXCEPT ![i].pc = "rejected",
                                          ![i].injected = 1]
  /\ UNCHANGED <<keyPairs, knownKeyPairs, keyPairFrame>>

(* EC2 answers the importKeyPair of call i in region: the key pair is      *)
(* imported, unless the region already holds one of that name              *)
Ec2ImportsKeyPair(i, region) ==
  /\ keyPairCalls[i].op = "createKeyPair"
  /\ region \in keyPairCalls[i].pending
  /\ LET key == <<region, KeyPairName(keyPairCalls[i].workerName)>>
     IN  IF key \in keyPairs
         THEN /\ keyPairCalls' = [keyPairCalls EXCEPT
                                    ![i].pending = @ \ {region},
                                    ![i].failed = TRUE]
              /\ UNCHANGED keyPairs
         ELSE /\ keyPairCalls' = [keyPairCalls EXCEPT ![i].pending = @ \ {region}]
              /\ keyPairs' = keyPairs \cup {key}
  /\ UNCHANGED <<knownKeyPairs, keyPairFrame>>

(* EC2 answers the deleteKeyPair of call i in region *)
Ec2DeletesKeyPair(i, region) ==
  /\ keyPairCalls[i].op = "deleteKeyPair"
  /\ region \in keyPairCalls[i].pending
  /\ keyPairCalls' = [keyPairCalls EXCEPT ![i].pending = @ \ {region}]
  /\ keyPairs' = keyPairs \ {<<region, KeyPairName(keyPairCalls[i].workerName)>>}
  /\ UNCHANGED <<knownKeyPairs, keyPairFrame>>

(* The importKeyPair or deleteKeyPair of call i in region rejects *)
Ec2KeyPairCallRejects(i, region) ==
  /\ region \in keyPairCalls[i].pending
  /\ ErrorsInjected < MaxFailedCalls
  /\ keyPairCalls' = [keyPairCalls EXCEPT ![i].pending = @ \ {region},
                                          ![i].failed = TRUE,
                                          ![i].injected = 1]
  /\ UNCHANGED <<keyPairs, knownKeyPairs, keyPairFrame>>

(* The rejection of call i that pushes the worker type to the cache all    *)
(* the same                                                                *)
KeyPairCallRejectsCached(i) ==
  /\ keyPairCalls[i].pc = "calling"
  /\ keyPairCalls[i].failed
  /\ keyPairCalls' = [keyPairCalls EXCEPT ![i].pc = "rejected"]
  /\ knownKeyPairs' = Append(knownKeyPairs, keyPairCalls[i].workerName)
  /\ UNCHANGED <<keyPairs, keyPairFrame>>

(* Promise.all of the issued calls rejects once one of them has rejected,  *)
(* and the cache is left alone                                             *)
KeyPairCallRejects(i) ==
  /\ keyPairCalls[i].pc = "calling"
  /\ keyPairCalls[i].failed
  /\ keyPairCalls' = [keyPairCalls EXCEPT ![i].pc = "rejected"]
  /\ UNCHANGED <<keyPairs, knownKeyPairs, keyPairFrame>>

(* Promise.all of the issued calls resolves: createKeyPair pushes the      *)
(* worker type to the cache, deleteKeyPair filters it out                  *)
KeyPairCallResolves(i) ==
  /\ keyPairCalls[i].pc = "calling"
  /\ keyPairCalls[i].pending = {}
  /\ ~keyPairCalls[i].failed
  /\ keyPairCalls' = [keyPairCalls EXCEPT ![i].pc = "resolved"]
  /\ knownKeyPairs' =
       IF keyPairCalls[i].op = "createKeyPair"
       THEN Append(knownKeyPairs, keyPairCalls[i].workerName)
       ELSE SelectSeq(knownKeyPairs,
                      LAMBDA knownKeyPair : knownKeyPair # keyPairCalls[i].workerName)
  /\ UNCHANGED <<keyPairs, keyPairFrame>>

KeyPairStep ==
  \E i \in 1..Len(keyPairCalls) :
    \/ DescribeKeyPairsResolves(i)
    \/ DescribeKeyPairsRejects(i)
    \/ \E region \in RegionSet :
         \/ Ec2ImportsKeyPair(i, region)
         \/ Ec2DeletesKeyPair(i, region)
         \/ Ec2KeyPairCallRejects(i, region)
    \/ KeyPairCallRejects(i)
    \/ KeyPairCallResolves(i)

(* A fresh manager, the key pairs of the worker types being in every       *)
(* region, in the first one only, or in none                               *)
InitKeyPairs ==
  /\ now = 0
  /\ ec2Requests = <<>>
  /\ InitManager
  /\ call = NoCall
  /\ result = NoCall
  /\ keyPairs \in KeyPairChoices
  /\ knownKeyPairs = <<>>
  /\ killCalls = <<>>
  /\ keyPairCalls = <<>>
  /\ pc = "idle"
  /\ livingSpotRequests = NoRequests
  /\ cancelCalls = <<>>
  /\ events = <<>>

NextKeyPairs(concurrent) ==
  \/ \E workerName \in WorkerNames : CreateKeyPair(workerName, concurrent)
  \/ \E workerName \in WorkerNames : DeleteKeyPair(workerName, concurrent)
  \/ KeyPairStep

NextKeyPairsInTurn == NextKeyPairs(FALSE)
NextKeyPairsConcurrent == NextKeyPairs(TRUE)

(* The calls about one worker type made one after the other, each once the *)
(* one before is at rest; calls about different worker types overlap       *)
SpecKeyPairsInTurn == InitKeyPairs /\ [][NextKeyPairsInTurn]_vars

(* The calls made at any time *)
SpecKeyPairs == InitKeyPairs /\ [][NextKeyPairsConcurrent]_vars

----------------------------------------------------------------------------
(* update() with exceptions thrown in its first callback *)

(* The loop over differences.requests when plotting a departed request     *)
(* throws (its LaunchSpecification has no Placement to read the zone from, *)
(* or the reporter throws): the open requests before the first one that is *)
(* plotted have been pushed on __awaitingSpotFulfilmentStatus.             *)
RECURSIVE DepartedUntilThrow(_, _)
DepartedUntilThrow(requests, t) ==
  IF requests = <<>> THEN [threw |-> FALSE, awaiting |-> <<>>]
  ELSE IF Head(requests).State = "open"
  THEN LET rest == DepartedUntilThrow(Tail(requests), t)
       IN  [ threw |-> rest.threw,
             awaiting |-> DepartedRequest(Head(requests), t).awaiting \o rest.awaiting ]
  ELSE [threw |-> TRUE, awaiting |-> <<>>]

(* update() whose catch passes the exception on *)
UpdateDiffThrowsUncaught ==
  /\ Idle
  /\ LET living == describeSpotInstanceRequests({"open"}, {})
         res3 == describeSpotInstanceRequests(
                   {"cancelled", "failed", "closed", "active"}, {})
         filteredSpotRequests == _filterSpotRequests(living, now)
         newApi == _classify(describeInstances({"running", "pending"}),
                             filteredSpotRequests.good)
         newDead == _classify(describeInstances({"shutting-down", "terminated", "stopping"}),
                              [r \in DOMAIN res3 |-> res3[r].SpotInstanceRequests])
         departed == DepartedUntilThrow(_compareStates(newApi, apiState, newDead).requests,
                                        now)
     IN  /\ departed.threw
         /\ livingSpotRequests' = living
         /\ previousApiState' = apiState
         /\ apiState' = newApi
         /\ deadState' = newDead
         /\ awaitingSpotFulfilmentStatus' =
              awaitingSpotFulfilmentStatus \o departed.awaiting
         /\ events' = filteredSpotRequests.events
         /\ cancelCalls' = <<>>
  /\ pc' = "rejected"
  /\ UNCHANGED <<now, ec2Requests, internalState, awaitingStateReason,
                 pureVars, killerVars>>

(* update() is called, its describe calls resolve, and plotting a departed *)
(* request throws inside the try: the rest of                              *)
(* _reconcileStateDifferences is skipped, the exception is logged, and the *)
(* callback goes on to handleStalledRequests                               *)
UpdateDiffThrows ==
  /\ Idle
  /\ LET living == describeSpotInstanceRequests({"open"}, {})
         res3 == describeSpotInstanceRequests(
                   {"cancelled", "failed", "closed", "active"}, {})
         filteredSpotRequests == _filterSpotRequests(living, now)
         newApi == _classify(describeInstances({"running", "pending"}),
                             filteredSpotRequests.good)
         newDead == _classify(describeInstances({"shutting-down", "terminated", "stopping"}),
                              [r \in DOMAIN res3 |-> res3[r].SpotInstanceRequests])
         departed == DepartedUntilThrow(_compareStates(newApi, apiState, newDead).requests,
                                        now)
     IN  /\ departed.threw
         /\ livingSpotRequests' = living
         /\ previousApiState' = apiState
         /\ apiState' = newApi
         /\ deadState' = newDead
         /\ awaitingSpotFulfilmentStatus' =
              awaitingSpotFulfilmentStatus \o departed.awaiting
         /\ events' = filteredSpotRequests.events
         /\ cancelCalls' = handleStalledRequests(filteredSpotRequests.stalled)
  /\ pc' = "cancelling"
  /\ UNCHANGED <<now, ec2Requests, internalState, awaitingStateReason,
                 pureVars, killerVars>>

(* The responses update() classifies: the living ones at line 159, the     *)
(* dead ones at line 160                                                   *)
Responses == {"living", "dead"}

(* update() is called, its describe calls resolve, and one of the          *)
(* responses holds an item that _classify cannot read (an instance with no *)
(* KeyName, a region with no entry): _classify throws outside the try, the *)
(* callback is left and update() rejects.  The last snapshot has been      *)
(* stored by then, and the new one too when the dead response is the one   *)
(* that throws.                                                            *)
UpdateClassifyThrows(response) ==
  /\ Idle
  /\ LET living == describeSpotInstanceRequests({"open"}, {})
         filteredSpotRequests == _filterSpotRequests(living, now)
         newApi == _classify(describeInstances({"running", "pending"}),
                             filteredSpotRequests.good)
     IN  /\ livingSpotRequests' = living
         /\ previousApiState' = apiState
         /\ apiState' = IF response = "living" THEN apiState ELSE newApi
         /\ events' = filteredSpotRequests.events
         /\ cancelCalls' = <<>>
  /\ pc' = "rejected"
  /\ UNCHANGED <<now, ec2Requests, deadState, internalState, awaitingStateReason,
                 awaitingSpotFulfilmentStatus, pureVars, killerVars>>

(* Two requests: the first one open in the snapshot, the second one placed *)
(* since and tracked.  Time passes, EC2 fulfils them or finds the price    *)
(* too low, and update() runs with calls and callbacks that fail.          *)
InitFailing ==
  /\ now = 0
  /\ \E b1, b2 \in BidInputs :
       /\ b1 # b2
       /\ ec2Requests = << Ec2RequestOf(b1, 1, "open"), Ec2RequestOf(b2, 2, "open") >>
       /\ apiState =
            _classify([r \in RegionSet |-> [Reservations |-> <<>>]],
                      [r \in RegionSet |->
                         SpotRequestsIn(<<Ec2RequestOf(b1, 1, "open")>>, r, {"open"}, {})])
       /\ internalState = <<TrackedOf(b2, 2)>>
  /\ previousApiState = EmptyState
  /\ deadState = EmptyState
  /\ awaitingStateReason = <<>>
  /\ awaitingSpotFulfilmentStatus = <<>>
  /\ pc = "idle"
  /\ livingSpotRequests = NoRequests
  /\ cancelCalls = <<>>
  /\ events = <<>>
  /\ call = NoCall
  /\ result = NoCall
  /\ InitKiller

NextFailing ==
  \/ Tick
  \/ \E k \in 1..Len(ec2Requests) : Ec2ChangesStatus(k)
  \/ \E k \in 1..Len(ec2Requests) : Ec2Fulfils(k)
  \/ UpdateStep(FALSE)
  \/ UpdateDiffThrows
  \/ \E response \in Responses : UpdateClassifyThrows(response)
  \/ UpdateResolves
  \/ UpdateCancelRejects

SpecFailing == InitFailing /\ [][NextFailing]_vars

----------------------------------------------------------------------------
(* ensureTags() *)

provisionerId == "aws-provisioner-v1"

(* missingTags that takes any Owner tag for the tag of the provisioner *)
missingTagsAnyOwner(obj) ==
  ~ /\ "Tags" \in DOMAIN obj
    /\ \E i \in 1..Len(obj.Tags) : obj.Tags[i].Key = "Owner"

(* missingTags(obj): no tag of obj has the key Owner and the provisioner   *)
(* id as its value                                                         *)
missingTags(obj) ==
  ~ /\ "Tags" \in DOMAIN obj
    /\ \E i \in 1..Len(obj.Tags) :
         obj.Tags[i].Key = "Owner" /\ obj.Tags[i].Value = provisionerId

(* The tags given to the resources of a worker type *)
TagData(workerType) ==
  << [Key |-> "Name", Value |-> workerType],
     [Key |-> "Owner", Value |-> provisionerId],
     [Key |-> "WorkerType", Value |-> provisionerId \o "/" \o workerType] >>

(* ensureTags(): the createTags calls it issues, one for every region and  *)
(* worker type of tags, in the order in which the keys were added          *)
ensureTags(api) ==
  LET instanceWithoutTags == SelectSeq(api.instances, missingTags)
      requestsWithoutTags == SelectSeq(api.requests, missingTags)
      tagged == [i \in 1..Len(instanceWithoutTags) |->
                   [ Region |-> instanceWithoutTags[i].Region,
                     WorkerType |-> instanceWithoutTags[i].WorkerType,
                     id |-> instanceWithoutTags[i].InstanceId ]]
                \o [i \in 1..Len(requestsWithoutTags) |->
                      [ Region |-> requestsWithoutTags[i].Region,
                        WorkerType |-> requestsWithoutTags[i].WorkerType,
                        id |-> requestsWithoutTags[i].SpotInstanceRequestId ]]
      tagRegions == PushAllNew(<<>>, [i \in 1..Len(tagged) |-> tagged[i].Region])
      In(region) == SelectSeq(tagged, LAMBDA y : y.Region = region)
      WorkerTypesIn(region) ==
        PushAllNew(<<>>, [i \in 1..Len(In(region)) |-> In(region)[i].WorkerType])
      Ids(region, workerType) ==
        LET ys == SelectSeq(In(region), LAMBDA y : y.WorkerType = workerType)
        IN  [i \in 1..Len(ys) |-> ys[i].id]
  IN  Concat([k \in 1..Len(tagRegions) |->
                [j \in 1..Len(WorkerTypesIn(tagRegions[k])) |->
                   [ op |-> "createTags",
                     region |-> tagRegions[k],
                     workerType |-> WorkerTypesIn(tagRegions[k])[j],
                     Tags |-> TagData(WorkerTypesIn(tagRegions[k])[j]),
                     Resources |-> Ids(tagRegions[k], WorkerTypesIn(tagRegions[k])[j]) ]]],
             [k \in 1..Len(tagRegions) |-> k])

(* ensureTags() is called and settles: the createTags calls numbered in    *)
(* failed reject, each rejection is caught, and the promise resolves       *)
EnsureTags ==
  /\ Idle
  /\ call = NoCall
  /\ LET issued == ensureTags(apiState)
     IN  /\ killCalls' = issued
         /\ \E failed \in SUBSET (1..Len(issued)) :
              /\ Cardinality(failed) <= MaxFailedCalls
              /\ call' = [op |-> "ensureTags", failed |-> failed]
  /\ pc' = "resolved"
  /\ Forget
  /\ UNCHANGED <<now, ec2Requests, managerVars, result, keyPairs, knownKeyPairs,
                 keyPairCalls>>

(* The tags a resource of the snapshot may carry: none, the Owner tag of   *)
(* the provisioner, the Owner tag of another owner, a tag that is not an   *)
(* Owner tag                                                               *)
TagOptions ==
  { <<>>,
    <<<<[Key |-> "Owner", Value |-> provisionerId]>>>>,
    <<<<[Key |-> "Owner", Value |-> "someone-else"]>>>>,
    <<<<[Key |-> "Name", Value |-> provisionerId]>>>> }

WithTags(obj, option) ==
  IF option = <<>> THEN obj ELSE obj @@ [Tags |-> option[1]]

(* ensureTags on its own, over snapshots of open requests and of running   *)
(* instances with every choice of tags                                     *)
InitTags ==
  /\ now = 0
  /\ \E bs \in SeqsUpTo(BidInputs \X {"open", "active"} \X TagOptions, MaxInFlight) :
       /\ ec2Requests = [i \in 1..Len(bs) |-> Ec2RequestOf(bs[i][1], i, bs[i][2])]
       /\ LET living == describeSpotInstanceRequests({"open"}, {})
              api == _classify(describeInstances({"running", "pending"}),
                               [r \in RegionSet |-> living[r].SpotInstanceRequests])
          IN  apiState =
                [ instances |->
                    [ i \in 1..Len(api.instances) |->
                        WithTags(api.instances[i], bs[api.instances[i].InstanceId][3]) ],
                  requests |->
                    [ i \in 1..Len(api.requests) |->
                        WithTags(api.requests[i],
                                 bs[api.requests[i].SpotInstanceRequestId][3]) ] ]
  /\ previousApiState = EmptyState
  /\ deadState = EmptyState
  /\ internalState = <<>>
  /\ awaitingStateReason = <<>>
  /\ awaitingSpotFulfilmentStatus = <<>>
  /\ pc = "idle"
  /\ livingSpotRequests = NoRequests
  /\ cancelCalls = <<>>
  /\ events = <<>>
  /\ call = NoCall
  /\ result = NoCall
  /\ InitKiller

SpecTags == InitTags /\ [][EnsureTags]_vars

----------------------------------------------------------------------------
(* requestSpotInstance(launchInfo, bid), with the assertions on the bid *)

(* The values a caller may pass as bid.price: numbers in cents, the number *)
(* NaN, a string, undefined                                                *)
JsNumber(v) == [t |-> "number", nan |-> FALSE, v |-> v, s |-> ""]
JsNaN == [t |-> "number", nan |-> TRUE, v |-> 0, s |-> ""]
JsString(str) == [t |-> "string", nan |-> FALSE, v |-> 0, s |-> str]
JsUndefined == [t |-> "undefined", nan |-> FALSE, v |-> 0, s |-> ""]

typeof(x) == x.t

(* bid.price.toString() *)
toString(x) == IF x.nan THEN "NaN" ELSE NumberToString(x.v)

BidPrices ==
  {JsNumber(41), JsNumber(50), JsNumber(5), JsNaN, JsString("0.41"), JsUndefined}

BidRegions == RegionSet \cup {"eu-central-1"}

(* The bids a caller may pass: none, or a bid with the worker type of the  *)
(* launch info                                                             *)
BidChoices ==
  {<<>>} \cup
  { <<[workerType |-> w, type |-> "t1", region |-> r, price |-> p]>> :
      w \in WorkerNames, r \in BidRegions, p \in BidPrices }

(* The assertions of requestSpotInstance pass *)
BidAsserted(bid) ==
  /\ bid # <<>>
  /\ typeof(bid[1].price) = "number"
  /\ bid[1].region \in RegionSet

(* The call ec2.requestSpotInstances.inRegion(bid.region, ...) *)
requestSpotInstancesCall(bid) ==
  [ op |-> "requestSpotInstances",
    region |-> bid.region,
    InstanceCount |-> 1,
    Type |-> "one-time",
    SpotPrice |-> toString(bid.price) ]

(* requestSpotInstance(launchInfo, bid): an assertion throws, or the call  *)
(* is made and EC2 accepts it, and the request is tracked, or EC2 rejects  *)
(* it; EC2 accepts no price that is not a number                           *)
RequestSpotInstance(bid) ==
  /\ Idle
  /\ \/ /\ ~BidAsserted(bid)
        /\ call' = [op |-> "requestSpotInstance", bid |-> bid, calls |-> <<>>]
        /\ pc' = "bid-threw"
        /\ UNCHANGED <<ec2Requests, internalState>>
     \/ /\ BidAsserted(bid)
        /\ call' = [ op |-> "requestSpotInstance", bid |-> bid,
                     calls |-> <<requestSpotInstancesCall(bid[1])>> ]
        /\ \/ /\ ~bid[1].price.nan
              /\ Len(ec2Requests) < MaxBids
              /\ LET b == [bid[1] EXCEPT !.price = bid[1].price.v]
                     q == NewEc2Request(b)
                     info == [ workerType |-> b.workerType,
                               request |-> SpotRequestView(q, FALSE),
                               bid |-> b,
                               submitted |-> now ]
                 IN  /\ ec2Requests' = Append(ec2Requests, q)
                     /\ internalState'
                          = _trackNewSpotRequest(internalState, apiState, info)
              /\ pc' = "bid-resolved"
           \/ /\ pc' = "bid-rejected"
              /\ UNCHANGED <<ec2Requests, internalState>>
  /\ Forget
  /\ UNCHANGED <<now, apiState, previousApiState, deadState, awaitingStateReason,
                 awaitingSpotFulfilmentStatus, result, killerVars>>

NextBid == \E bid \in BidChoices : RequestSpotInstance(bid)

SpecBid == Init /\ [][NextBid]_vars

----------------------------------------------------------------------------
(* _classify over the describe results of an account that also holds       *)
(* resources of other owners                                               *)

AccountKeyNames ==
  { keyPrefix \o "w1", keyPrefix \o "w2", "aws-provisioner-v1-managed",
    "someone-elses-key" }

(* The describe filter on the key name, with the value keyPrefix + '*' *)
KeyNameMatches(keyName) ==
  /\ Len(keyName) >= Len(keyPrefix)
  /\ SubSeq(keyName, 1, Len(keyPrefix)) = keyPrefix

(* The describe results of update() for the resources items, numbered by   *)
(* their place in items                                                    *)
AccountReservations(items, region) ==
  LET found == SelectSeq([i \in 1..Len(items) |-> i],
                         LAMBDA i : /\ items[i].kind = "instance"
                                    /\ items[i].Region = region
                                    /\ KeyNameMatches(items[i].KeyName))
  IN  [j \in 1..Len(found) |->
         [Instances |-> <<[InstanceId |-> found[j],
                           KeyName |-> items[found[j]].KeyName]>>]]

AccountSpotRequests(items, region) ==
  LET found == SelectSeq([i \in 1..Len(items) |-> i],
                         LAMBDA i : /\ items[i].kind = "request"
                                    /\ items[i].Region = region
                                    /\ KeyNameMatches(items[i].KeyName))
  IN  [j \in 1..Len(found) |->
         [ SpotInstanceRequestId |-> found[j],
           LaunchSpecification |-> [KeyName |-> items[found[j]].KeyName] ]]

InitClassify ==
  /\ now = 0
  /\ ec2Requests = <<>>
  /\ InitManager
  /\ \E items \in SeqsUpTo([ kind : {"instance", "request"}, Region : RegionSet,
                             KeyName : AccountKeyNames ], MaxInFlight) :
       call = [op |-> "account", items |-> items]
  /\ result = NoCall
  /\ InitKiller

ClassifyCall ==
  /\ result = NoCall
  /\ result' = [ op |-> "_classify",
                 state |-> _classify(
                   [r \in RegionSet |->
                      [Reservations |-> AccountReservations(call.items, r)]],
                   [r \in RegionSet |-> AccountSpotRequests(call.items, r)]) ]
  /\ UNCHANGED <<now, ec2Requests, managerVars, pc, livingSpotRequests,
                 cancelCalls, events, call, killerVars>>

SpecClassify == InitClassify /\ [][ClassifyCall]_vars

----------------------------------------------------------------------------
(* The in-flight tracker: properties of Spec *)

(* The id EC2 gave to the latest request submitted *)
LatestId == Len(ec2Requests)

(* C1: when requestSpotInstance settles after ec2.requestSpotInstances has *)
(* succeeded, the id returned is in the in-flight tracker; when the call   *)
(* has failed, the tracker is as it was.                                   *)
C1_BidIsTracked ==
  [][ /\ pc' = "bid-resolved" =>
          /\ LatestId' = LatestId + 1
          /\ LatestId' \in InternalIds(internalState')
      /\ pc' = "bid-rejected" => internalState' = internalState ]_vars

C1_Witness ==
  /\ pc = "bid-resolved"
  /\ LatestId \in InternalIds(internalState)
  /\ LatestId \notin knownSpotInstanceRequestIds(apiState)

(* C2: whenever update() has settled, resolved or rejected, no spot        *)
(* request id is both in the current snapshot, as a request or as the      *)
(* request of an instance, and in the in-flight tracker.                   *)
C2_NoIdCountedTwice ==
  pc \in {"resolved", "rejected"} =>
    InternalIds(internalState) \cap knownSpotInstanceRequestIds(apiState) = {}

C4_NeverOlderThanTimeout ==
  \A i \in 1..Len(internalState) : now - internalState[i].submitted <= 15

(* C4, amended: when update() has resolved, the in-flight tracker holds no *)
(* entry that was 15 minutes old or older at the sweep.                    *)
C4_NotOldWhenResolved ==
  pc = "resolved" =>
    \A i \in 1..Len(internalState) : now - internalState[i].submitted < 15

C4_Witness ==
  /\ pc = "resolved"
  /\ now >= 15
  /\ \E i \in 1..Len(events) :
       /\ events[i].kind = "ec2_api_lag"
       /\ events[i].didShow = 1
       /\ events[i].lag > 15

----------------------------------------------------------------------------
(* Capacity counting: properties of SpecCapacity *)

InFlightOfType(workerType) ==
  SelectSeq(internalState, LAMBDA e : e.request.WorkerType = workerType)

(* C5: capacityForType adds in-flight capacity only for the tracker        *)
(* entries of the queried worker type: the result is what it would be with *)
(* the entries of the other worker types taken out of the tracker.         *)
C5_OnlyOwnInFlight ==
  call.op = "capacityForType" =>
    result = capacityForType(call.workerType, call.states, apiState,
                             InFlightOfType(call.workerType.workerType))

(* What the instances in the states asked for count *)
InstanceCapacity(workerType, states) ==
  LET instances == instancesOfType(apiState, workerType.workerType)
  IN  SumSeq([i \in 1..Len(instances) |->
                IF instances[i].State.Name \in states
                THEN CapacityOrOne(workerType, instances[i].InstanceType)
                ELSE 0])

(* C6: with spot requests asked for and every tracker entry of the queried *)
(* worker type, each open request and each in-flight bid counts as the     *)
(* capacity the worker type lists for the instance type of its launch      *)
(* specification, and as 1 only when the type is not listed.               *)
C6_RequestsCountTheirCapacity ==
  ( /\ call.op = "capacityForType"
    /\ "spotReq" \in call.states
    /\ InFlightOfType(call.workerType.workerType) = internalState ) =>
    LET requests == requestsOfType(apiState, call.workerType.workerType)
    IN  result =
          InstanceCapacity(call.workerType, call.states)
          + SumSeq([i \in 1..Len(requests) |->
                      CapacityOrOne(call.workerType,
                                    requests[i].LaunchSpecification.InstanceType)])
          + SumSeq([i \in 1..Len(internalState) |->
                      CapacityOrOne(call.workerType,
                                    internalState[i].request.LaunchSpecification.InstanceType)])

----------------------------------------------------------------------------
(* The filter of the open requests: properties of SpecFilter *)

(* The status codes of a stalled request, as the specification lists them *)
BadStatusCodes ==
  { "capacity-not-available", "capacity-oversubscribed", "price-too-low",
    "not-scheduled-yet", "launch-group-constraint", "az-group-constraint",
    "placement-group-constraint", "constraint-not-fulfillable" }

ShouldStall(sr, t) ==
  \/ sr.Status.Code \in BadStatusCodes
  \/ sr.CreateTime + 20 < t

(* C7: an open request is put with the stalled requests if and only if its *)
(* status code is one of the bad status codes or it was created more than  *)
(* 20 minutes ago, and every other open request is put with the good ones. *)
C7_StalledIffBadOrOld ==
  call.op = "_filterSpotRequests" =>
    \A r \in RegionSet :
      \A i \in 1..Len(call.spotReqs[r].SpotInstanceRequests) :
        LET sr == call.spotReqs[r].SpotInstanceRequests[i]
        IN  /\ sr \in Range(result.stalled[r]) <=> ShouldStall(sr, now)
            /\ ~ShouldStall(sr, now) => sr \in Range(result.good[r])

----------------------------------------------------------------------------
(* The first step of update(): properties of the state it leaves, where    *)
(* previousApiState is the snapshot before it and apiState the one after   *)

CancelledIds ==
  UNION {Range(cancelCalls[i].SpotInstanceRequestIds) : i \in 1..Len(cancelCalls)}

(* C8: every open request that is stalled, by its status code or by its    *)
(* age alone, is cancelled by the update() that sees it and is not in the  *)
(* requests of the snapshot that update() leaves.                          *)
C8_StalledLeaveTheSnapshot ==
  pc = "cancelling" =>
    \A r \in RegionSet :
      \A i \in 1..Len(livingSpotRequests[r].SpotInstanceRequests) :
        LET sr == livingSpotRequests[r].SpotInstanceRequests[i]
        IN  ShouldStall(sr, now) =>
              /\ sr.SpotInstanceRequestId \in CancelledIds
              /\ sr.SpotInstanceRequestId \notin RequestIds(apiState.requests)

(* The points of the given kinds reported about id *)
EventsAbout(id, kinds) ==
  {i \in 1..Len(events) : events[i].kind \in kinds /\ events[i].id = id}

DepartedRequestIds ==
  RequestIds(previousApiState.requests) \ RequestIds(apiState.requests)

DepartedInstanceIds ==
  InstanceIds(previousApiState.instances) \ InstanceIds(apiState.instances)

AwaitedIds(list) == {list[i].id : i \in 1..Len(list)}

(* C9: for every request and every instance of the previous snapshot that  *)
(* is not in the current one, the update() that sees it leave reports a    *)
(* terminal point about it or puts it on an awaiting list.                 *)
C9_NoDepartureDropped ==
  pc = "cancelling" =>
    /\ \A id \in DepartedRequestIds :
         \/ EventsAbout(id, {"request_fulfilled", "request_died"}) # {}
         \/ id \in AwaitedIds(awaitingSpotFulfilmentStatus)
    /\ \A id \in DepartedInstanceIds :
         \/ EventsAbout(id, {"instance_terminated"}) # {}
         \/ id \in AwaitedIds(awaitingStateReason)

----------------------------------------------------------------------------
(* The departed requests: properties of SpecDiff *)

(* The entries of the awaiting list put there for id by this update(): the *)
(* filter that follows the push has counted them once                      *)
PushedNow(id) ==
  {i \in 1..Len(awaitingSpotFulfilmentStatus) :
     awaitingSpotFulfilmentStatus[i] = [id |-> id, time |-> now, iterationCount |-> 1]}

(* C10: for each departed request found in the dead state: active and      *)
(* fulfilled, one request_fulfilled point, no request_died point and no    *)
(* awaiting entry; open, no point and one awaiting entry; otherwise one    *)
(* request_died point with the state, status code and status message of    *)
(* the request and the price that was bid, no request_fulfilled point and  *)
(* no awaiting entry.                                                      *)
C10_DepartedRequestReported ==
  pc = "cancelling" =>
    \A j \in 1..Len(deadState.requests) :
      LET q == deadState.requests[j]
          id == q.SpotInstanceRequestId
          fulfilled == EventsAbout(id, {"request_fulfilled"})
          died == EventsAbout(id, {"request_died"})
      IN  id \in DepartedRequestIds =>
            IF q.State = "active" /\ q.Status.Code = "fulfilled"
            THEN Cardinality(fulfilled) = 1 /\ died = {} /\ PushedNow(id) = {}
            ELSE IF q.State = "open"
            THEN fulfilled = {} /\ died = {} /\ Cardinality(PushedNow(id)) = 1
            ELSE /\ fulfilled = {} /\ PushedNow(id) = {}
                 /\ Cardinality(died) = 1
                 /\ \A i \in died :
                      /\ events[i].state = q.State
                      /\ events[i].statusCode = q.Status.Code
                      /\ events[i].statusMsg = q.Status.Message
                      /\ \E b \in BidInputs :
                           /\ b.workerType = q.WorkerType
                           /\ events[i].bid = b.price

C10_Witness ==
  /\ pc = "cancelling"
  /\ \E j \in 1..Len(deadState.requests) :
       /\ deadState.requests[j].SpotInstanceRequestId \in DepartedRequestIds
       /\ deadState.requests[j].State = "open"
       /\ Cardinality(PushedNow(deadState.requests[j].SpotInstanceRequestId)) = 1

----------------------------------------------------------------------------
(* The departures awaiting resolution: properties of SpecAwaiting *)

(* The dead state shows the request id as active and fulfilled *)
FulfilledIn(dead, id) ==
  \E i \in 1..Len(dead.requests) :
    /\ dead.requests[i].SpotInstanceRequestId = id
    /\ dead.requests[i].State = "active"
    /\ dead.requests[i].Status.Code = "fulfilled"

(* C11: when update() finds in its dead state, as active and fulfilled, the *)
(* request of an entry of the list of requests awaiting their fulfilment   *)
(* status, it reports a request_fulfilled point about that request and     *)
(* takes the entry off the list in that same iteration.                    *)
C11_AwaitedFulfilmentResolved ==
  [][pc' = "cancelling" =>
       \A id \in AwaitedIds(awaitingSpotFulfilmentStatus) :
         FulfilledIn(deadState', id) =>
           /\ \E i \in 1..Len(events') :
                /\ events'[i].kind = "request_fulfilled"
                /\ events'[i].id = id
           /\ id \notin AwaitedIds(awaitingSpotFulfilmentStatus')]_vars

(* The dead state shows the instance id with a state reason *)
ReasonedIn(dead, id) ==
  \E i \in 1..Len(dead.instances) :
    /\ dead.instances[i].InstanceId = id
    /\ dead.instances[i].StateReason.Code # ""

(* The entry of an awaiting list about id *)
EntryOf(list, id) == list[CHOOSE i \in 1..Len(list) : list[i].id = id]

(* C12: when update() finds in its dead state, with a state reason, the    *)
(* instance of an entry of the list of instances awaiting their state      *)
(* reason, it reports exactly one instance_terminated point about that     *)
(* instance, dated with the time the entry was made and not with the time  *)
(* of this update(), and takes the entry off the list.                     *)
C12_AwaitedReasonResolved ==
  [][pc' = "cancelling" =>
       \A id \in AwaitedIds(awaitingStateReason) :
         ReasonedIn(deadState', id) =>
           /\ Cardinality(EventsAbout(id, {"instance_terminated"})') = 1
           /\ \A i \in EventsAbout(id, {"instance_terminated"})' :
                events'[i].time = EntryOf(awaitingStateReason, id).time
           /\ id \notin AwaitedIds(awaitingStateReason')]_vars

(* An instance_terminated point is reported with a time before that of the *)
(* update() that reports it, and the list is left empty                    *)
C12_Witness ==
  /\ pc = "cancelling"
  /\ awaitingStateReason = <<>>
  /\ \E i \in 1..Len(events) :
       /\ events[i].kind = "instance_terminated"
       /\ events[i].time < now

(* The update() passes that have run over an entry since the pass that     *)
(* made it: the filter counts every pass, the one that made it included    *)
PassesSince(entry) == entry.iterationCount - 1

(* C13: an entry of either awaiting list that is not resolved is off its   *)
(* list once 20 update() passes have run since it was made, and it is      *)
(* dropped without any point being reported about it.                      *)
C13_DroppedWithinBudget ==
  [][pc' = "cancelling" =>
       /\ \A i \in 1..Len(awaitingSpotFulfilmentStatus') :
            PassesSince(awaitingSpotFulfilmentStatus'[i])
              < MAX_ITERATIONS_FOR_STATE_RESOLUTION
       /\ \A i \in 1..Len(awaitingStateReason') :
            PassesSince(awaitingStateReason'[i])
              < MAX_ITERATIONS_FOR_STATE_RESOLUTION
       /\ \A id \in AwaitedIds(awaitingSpotFulfilmentStatus)
                      \ AwaitedIds(awaitingSpotFulfilmentStatus') :
            ~FulfilledIn(deadState', id) =>
              EventsAbout(id, {"request_fulfilled", "request_died"})' = {}
       /\ \A id \in AwaitedIds(awaitingStateReason)
                      \ AwaitedIds(awaitingStateReason') :
            ~ReasonedIn(deadState', id) =>
              EventsAbout(id, {"instance_terminated"})' = {}]_vars

----------------------------------------------------------------------------
(* The departed instances: properties of SpecDiff *)

(* The instances of the dead state with the given id *)
DeadInstancesOf(id) ==
  {i \in 1..Len(deadState.instances) : deadState.instances[i].InstanceId = id}

(* The price, in cents, that the bids of a worker type are placed at *)
BidPriceOf(workerType) == (CHOOSE b \in BidInputs : b.workerType = workerType).price

PointsOfKind(kind) == {i \in 1..Len(events) : events[i].kind = kind}

(* The point after point i says that the spot price rose above bid p and   *)
(* killed the instance                                                     *)
PriceFloorFollows(i, instance, p) ==
  /\ i + 1 <= Len(events)
  /\ events[i + 1].kind = "spot_price_floor"
  /\ events[i + 1].reason = "instance-spot-killed"
  /\ events[i + 1].price = p
  /\ events[i + 1].region = instance.Region
  /\ events[i + 1].instanceType = instance.InstanceType

(* C14: when update() sees an instance leave the snapshot with the state   *)
(* reason code Server.SpotInstanceTermination and the spot request of the  *)
(* instance, placed at bid p, is in the dead state, it reports exactly one *)
(* instance_terminated point about the instance and, with it, exactly one  *)
(* spot_price_floor point with price p.                                    *)
C14_SpotKillReportsPriceFloor ==
  pc = "cancelling" =>
    /\ \A id \in DepartedInstanceIds : \A d \in DeadInstancesOf(id) :
         LET instance == deadState.instances[d]
         IN  /\ instance.StateReason.Code = "Server.SpotInstanceTermination"
             /\ instance.SpotInstanceRequestId \in RequestIds(deadState.requests)
             => /\ Cardinality(EventsAbout(id, {"instance_terminated"})) = 1
                /\ \A i \in EventsAbout(id, {"instance_terminated"}) :
                     PriceFloorFollows(i, instance, BidPriceOf(instance.WorkerType))
    /\ Cardinality(PointsOfKind("spot_price_floor"))
         <= Cardinality(PointsOfKind("instance_terminated"))

(* An instance has left with that reason and its request is in the dead    *)
(* state                                                                   *)
C14_Witness ==
  /\ pc = "cancelling"
  /\ \E id \in DepartedInstanceIds : \E d \in DeadInstancesOf(id) :
       /\ deadState.instances[d].StateReason.Code = "Server.SpotInstanceTermination"
       /\ deadState.instances[d].SpotInstanceRequestId \in RequestIds(deadState.requests)
       /\ \E i \in PointsOfKind("spot_price_floor") :
            events[i].price = BidPriceOf(deadState.instances[d].WorkerType)

----------------------------------------------------------------------------
(* The price floor of the instances killed by the spot price: properties   *)
(* of SpecReasonFair                                                       *)

InstancesFollowed == {1}

(* update() has just seen instance id leave the snapshot *)
DepartureObserved(id) == pc = "cancelling" /\ id \in DepartedInstanceIds

(* EC2 gives Server.SpotInstanceTermination as the state reason of         *)
(* instance id                                                             *)
SpotKilled(id) ==
  /\ id \in 1..Len(ec2Requests)
  /\ ec2Requests[id].iState = "terminated"
  /\ ec2Requests[id].iReason = "Server.SpotInstanceTermination"

PriceFloorReported == PointsOfKind("spot_price_floor") # {}

(* C15: for every instance that update() sees leave the snapshot and whose *)
(* state reason code is Server.SpotInstanceTermination, a spot_price_floor *)
(* point is eventually reported (the claim adds: within 20 iterations).    *)
C15_PriceFloorEventually ==
  \A id \in InstancesFollowed :
    [](DepartureObserved(id) => ([]~SpotKilled(id) \/ <>PriceFloorReported))

(* The dead state shows instance id with the state reason code             *)
(* Server.SpotInstanceTermination and the price of its request can be read *)
SpotKilledIn(dead, api, id) ==
  \E i \in 1..Len(dead.instances) :
    /\ dead.instances[i].InstanceId = id
    /\ dead.instances[i].StateReason.Code = "Server.SpotInstanceTermination"
    /\ dead.instances[i].SpotInstanceRequestId
         \in RequestIds(dead.requests) \cup RequestIds(api.requests)

(* C15, as the code has it: when the dead state of an update() shows, with *)
(* the code Server.SpotInstanceTermination and a request whose price can   *)
(* be read, an instance that this update() sees leave the snapshot or that *)
(* is still on the list of instances awaiting their state reason, this     *)
(* update() reports a spot_price_floor point with the price that was bid.  *)
C15_PriceFloorWhileAwaited ==
  [][pc' = "cancelling" =>
       \A id \in DepartedInstanceIds' \cup AwaitedIds(awaitingStateReason) :
         SpotKilledIn(deadState', apiState', id) =>
           \E i \in 1..Len(events') :
             /\ events'[i].kind = "spot_price_floor"
             /\ events'[i].price = BidPriceOf(ec2Requests[id].workerType)]_vars

(* The price floor is reported for an instance that had been awaiting its  *)
(* state reason since an earlier update()                                  *)
C15_Witness ==
  /\ pc = "cancelling"
  /\ DepartedInstanceIds = {}
  /\ \E i \in PointsOfKind("instance_terminated") :
       /\ events[i].stateChangeCode = "Server.SpotInstanceTermination"
       /\ i + 1 \in PointsOfKind("spot_price_floor")

----------------------------------------------------------------------------
(* The rouge killer: properties of SpecRouge *)

CallsOf(calls, op) == {i \in 1..Len(calls) : calls[i].op = op}

(* What the calls target, each with the region of the call *)
TerminateTargets(calls) ==
  UNION { {<<calls[i].region, id>> : id \in Range(calls[i].InstanceIds)} :
            i \in CallsOf(calls, "terminateInstances") }

CancelTargets(calls) ==
  UNION { {<<calls[i].region, id>> : id \in Range(calls[i].SpotInstanceRequestIds)} :
            i \in CallsOf(calls, "cancelSpotInstanceRequests") }

DeleteTargets(calls) ==
  {<<calls[i].region, calls[i].KeyName>> : i \in CallsOf(calls, "deleteKeyPair")}

(* The instances and the requests that the manager knows of a worker type  *)
SnapshotInstancesOf(name) ==
  { <<apiState.instances[i].Region, apiState.instances[i].InstanceId>> :
      i \in {j \in 1..Len(apiState.instances) : apiState.instances[j].WorkerType = name} }

SnapshotRequestsOf(name) ==
  { <<apiState.requests[i].Region, apiState.requests[i].SpotInstanceRequestId>> :
      i \in {j \in 1..Len(apiState.requests) : apiState.requests[j].WorkerType = name} }

InFlightRequestsOf(name) ==
  { <<internalState[i].request.Region, internalState[i].request.SpotInstanceRequestId>> :
      i \in {j \in 1..Len(internalState) : internalState[j].request.WorkerType = name} }

KnownInState(name) ==
  SnapshotInstancesOf(name) \cup SnapshotRequestsOf(name) \cup InFlightRequestsOf(name)
    # {}

(* A step is a call of rougeKiller *)
RougeKillerRuns == call'.op = "rougeKiller" /\ call' # call

(* The describeKeyPairs call about the key pair of name has resolved *)
Described(calls, name) ==
  \E i \in CallsOf(calls, "describeKeyPairs") :
    calls[i].KeyName = KeyPairName(name) /\ calls[i].resolved

KillsIssued(calls, name) ==
  /\ SnapshotInstancesOf(name) \subseteq TerminateTargets(calls)
  /\ SnapshotRequestsOf(name) \subseteq CancelTargets(calls)
  /\ InFlightRequestsOf(name) \subseteq CancelTargets(calls)

(* The key pair of name is deleted in every region that has it in keys *)
DeletesIssued(calls, keys, name) ==
  \A r \in RegionSet :
    <<r, KeyPairName(name)>> \in keys => <<r, KeyPairName(name)>> \in DeleteTargets(calls)

LeftInCloud(name) ==
  \/ \E k \in 1..Len(ec2Requests) :
       /\ ec2Requests[k].workerType = name
       /\ \/ ec2Requests[k].iState \in {"running", "pending"}
          \/ ec2Requests[k].State = "open"
  \/ \E r \in RegionSet : <<r, KeyPairName(name)>> \in keyPairs

(* C17: after a call of rougeKiller whose promise resolves, no worker type *)
(* outside the configured set has a live instance, an open spot request or *)
(* a key pair left in the cloud.                                           *)
C17_NothingRougeLeft ==
  (call.op = "rougeKiller" /\ pc = "resolved") =>
    \A name \in WorkerNames \ call.configuredWorkers : ~LeftInCloud(name)

(* C18: rougeKiller called with an empty configured set is a global stop:  *)
(* every instance and every request of the snapshot and every in-flight    *)
(* request is the target of a terminate or of a cancel call, in its        *)
(* region.                                                                 *)
C18_EmptySetStopsAll ==
  (call.op = "rougeKiller" /\ call.configuredWorkers = {}) =>
    /\ \A i \in 1..Len(apiState.instances) :
         <<apiState.instances[i].Region, apiState.instances[i].InstanceId>>
           \in TerminateTargets(killCalls)
    /\ \A i \in 1..Len(apiState.requests) :
         <<apiState.requests[i].Region, apiState.requests[i].SpotInstanceRequestId>>
           \in CancelTargets(killCalls)
    /\ \A i \in 1..Len(internalState) :
         <<internalState[i].request.Region,
           internalState[i].request.SpotInstanceRequestId>>
           \in CancelTargets(killCalls)

(* The global stop of a state that knows two worker types, one of them by  *)
(* an in-flight request only                                               *)
C18_Witness ==
  /\ call.op = "rougeKiller"
  /\ call.configuredWorkers = {}
  /\ \A name \in WorkerNames : KnownInState(name)
  /\ \E name \in WorkerNames :
       /\ SnapshotInstancesOf(name) \cup SnapshotRequestsOf(name) = {}
       /\ InFlightRequestsOf(name) # {}
  /\ Cardinality(TerminateTargets(killCalls) \cup CancelTargets(killCalls)) = 2

(* A step is a run of rougeKiller right after a run that resolved, with    *)
(* the same configured set                                                 *)
RougeKillerRunsAgain ==
  /\ RougeKillerRuns
  /\ call.op = "rougeKiller"
  /\ pc = "resolved"
  /\ call'.configuredWorkers = call.configuredWorkers

KillCallsOf(calls) ==
  SelectSeq(calls, LAMBDA c : c.op \in {"terminateInstances", "cancelSpotInstanceRequests"})

(* C19: a second run of rougeKiller right after a first one that resolved, *)
(* with the same configured set, issues no terminate, cancel or            *)
(* deleteKeyPair call and changes no tracker and no cache.                 *)
C19_SecondRunIssuesNothing ==
  [][RougeKillerRunsAgain =>
       /\ KillCallsOf(killCalls') = <<>>
       /\ DeleteTargets(killCalls') = {}
       /\ UNCHANGED <<managerVars, knownKeyPairs>>]_vars

(* C19, as the code has it: the second run changes nothing in the cloud,   *)
(* in the trackers or in the cache of key pairs and issues no              *)
(* deleteKeyPair call; it issues again the terminate and cancel calls of   *)
(* the first run.                                                          *)
C19_SecondRunChangesNothing ==
  [][RougeKillerRunsAgain =>
       /\ KillCallsOf(killCalls') = KillCallsOf(killCalls)
       /\ DeleteTargets(killCalls') = {}
       /\ UNCHANGED <<ec2Requests, keyPairs, managerVars, knownKeyPairs>>]_vars

(* A second run, after a first one that has deleted key pairs, that issues *)
(* terminate or cancel calls again                                         *)
C19_Witness ==
  /\ call.op = "rougeKiller"
  /\ call.run = 2
  /\ KillCallsOf(killCalls) # <<>>
  /\ \E name \in WorkerNames \ call.configuredWorkers :
       KnownInState(name) /\ name \notin Range(knownKeyPairs)

----------------------------------------------------------------------------
(* The zombie killer: properties of SpecZombie *)

(* The instance was launched more than the maximal life of an instance ago *)
OlderThanLimit(instance) ==
  /\ HasLaunchTime(instance)
  /\ instance.LaunchTime < now - MaxInstanceLifeHours * 60

(* C20: zombieKiller terminates an instance of the snapshot if and only if *)
(* the instance has a launch time and that time is strictly earlier than   *)
(* now - maxInstanceLife; an instance with no launch time, or younger than *)
(* the limit, is in no terminate call.                                     *)
C20_ZombiesOnly ==
  call.op = "zombieKiller" =>
    /\ \A i \in 1..Len(apiState.instances) :
         <<apiState.instances[i].Region, apiState.instances[i].InstanceId>>
             \in TerminateTargets(killCalls)
           <=> OlderThanLimit(apiState.instances[i])
    /\ TerminateTargets(killCalls) \subseteq
         {<<apiState.instances[i].Region, apiState.instances[i].InstanceId>> :
            i \in 1..Len(apiState.instances)}
    /\ CancelTargets(killCalls) = {}

(* Of two instances launched 100 hours and 20 hours ago, the first one     *)
(* only is terminated                                                      *)
C20_Witness ==
  /\ call.op = "zombieKiller"
  /\ \E i, j \in 1..Len(apiState.instances) :
       /\ HasLaunchTime(apiState.instances[i])
       /\ now - apiState.instances[i].LaunchTime = 100 * 60
       /\ HasLaunchTime(apiState.instances[j])
       /\ now - apiState.instances[j].LaunchTime = 20 * 60
       /\ TerminateTargets(killCalls)
            = {<<apiState.instances[i].Region, apiState.instances[i].InstanceId>>}

----------------------------------------------------------------------------
(* killCapacityOfWorkerType: properties of SpecKillCapacity *)

KillCapacityRan == call.op = "killCapacityOfWorkerType"

(* The candidates that pass the test of their loop *)
EligibleCandidates == SelectSeq(call.candidates, LAMBDA c : c.applies)

PickedCapacity(k) == SumSeq([i \in 1..k |-> result.picked[i].cap])

PickedBefore(k) == {result.picked[i] : i \in 1..(k - 1)}

(* The picked resources as the targets of calls *)
PickedTargets(kinds) ==
  { <<result.picked[i].region, result.picked[i].id>> :
      i \in {j \in 1..Len(result.picked) : result.picked[j].kind \in kinds} }

(* C21: called with count > 0, killCapacityOfWorkerType selects resources  *)
(* whose summed capacity is at least count, or every resource that can be  *)
(* selected without going below minCapacity, and issues the kills for what *)
(* it selected.                                                            *)
C21_ExcessCapacityKilled ==
  (KillCapacityRan /\ call.count > 0) =>
    /\ ~result.threw
    /\ \/ PickedCapacity(Len(result.picked)) >= call.count
       \/ \A c \in Range(EligibleCandidates) \ Range(result.picked) :
            result.capacity - PickedCapacity(Len(result.picked)) - c.cap
              < call.workerType.minCapacity
    /\ TerminateTargets(killCalls) = PickedTargets({"instance"})
    /\ CancelTargets(killCalls) = PickedTargets({"request", "in-flight"})

(* C22: no resource is selected whose removal brings the capacity that     *)
(* remains, the capacity minus what is selected so far, below minCapacity. *)
C22_MinCapacityKept ==
  KillCapacityRan =>
    \A k \in 1..Len(result.picked) :
      result.capacity - PickedCapacity(k) >= call.workerType.minCapacity

(* C23: a request of the snapshot is selected only after every in-flight   *)
(* request of the worker type, and an instance only after every request.   *)
C23_InFlightFirst ==
  KillCapacityRan =>
    \A k \in 1..Len(result.picked) :
      /\ result.picked[k].kind = "request" =>
           \A c \in Range(EligibleCandidates) :
             c.kind = "in-flight" => c \in PickedBefore(k)
      /\ result.picked[k].kind = "instance" =>
           \A c \in Range(EligibleCandidates) :
             c.kind \in {"in-flight", "request"} => c \in PickedBefore(k)

(* C24: killCapacityOfWorkerType issues per region at most one cancel call *)
(* and at most one terminate call, none with an empty list of ids, and the *)
(* calls of a region carry every id selected in that region.               *)
C24_OneCallPerRegionCarriesAll ==
  KillCapacityRan =>
    /\ \A region \in RegionSet,
          op \in {"terminateInstances", "cancelSpotInstanceRequests"} :
         Cardinality({i \in CallsOf(killCalls, op) : killCalls[i].region = region}) <= 1
    /\ \A i \in CallsOf(killCalls, "terminateInstances") :
         killCalls[i].InstanceIds # <<>>
    /\ \A i \in CallsOf(killCalls, "cancelSpotInstanceRequests") :
         killCalls[i].SpotInstanceRequestIds # <<>>
    /\ PickedTargets({"instance"}) \subseteq TerminateTargets(killCalls)
    /\ PickedTargets({"request", "in-flight"}) \subseteq CancelTargets(killCalls)

----------------------------------------------------------------------------
(* createKeyPair and deleteKeyPair: properties of SpecKeyPairsInTurn and   *)
(* of SpecKeyPairs                                                         *)

KeyPairEverywhere(workerName, pairs) ==
  \A region \in RegionSet : <<region, KeyPairName(workerName)>> \in pairs

(* The regions in which describeKeyPairs reported no matching key *)
ReportedMissing(res) == {region \in RegionSet : res[region].KeyPairs = <<>>}

C26_CacheMatchesEc2 ==
  /\ \A i \in 1..Len(knownKeyPairs) : KeyPairEverywhere(knownKeyPairs[i], keyPairs)
  /\ \A i, j \in 1..Len(knownKeyPairs) :
       knownKeyPairs[i] = knownKeyPairs[j] => i = j

----------------------------------------------------------------------------
(* update() and the calls that fail: properties of Spec *)

(* update() rejects on its describe calls in this step *)
DescribeRejects == Idle /\ pc' = "rejected"

(* C27: when a describe call of update() fails, update() rejects and       *)
(* changes nothing: the snapshots, the tracker and the two awaiting lists  *)
(* are as before, and no event, cancel or terminate call is issued.        *)
C27_DescribeFailureChangesNothing ==
  [][DescribeRejects =>
       /\ apiState' = apiState
       /\ previousApiState' = previousApiState
       /\ deadState' = deadState
       /\ internalState' = internalState
       /\ awaitingStateReason' = awaitingStateReason
       /\ awaitingSpotFulfilmentStatus' = awaitingSpotFulfilmentStatus
       /\ events' = <<>>
       /\ cancelCalls' = <<>>
       /\ killCalls' = killCalls
       /\ ec2Requests' = ec2Requests]_vars

(* update() has rejected on its describe calls while the tracker held a    *)
(* request that EC2 showed fulfilled, after an update() that changed the   *)
(* snapshot                                                                *)
C27_Witness ==
  /\ pc = "rejected"
  /\ cancelCalls = <<>>
  /\ internalState # <<>>
  /\ apiState # previousApiState
  /\ \E k \in 1..Len(ec2Requests) :
       /\ ec2Requests[k].visible
       /\ ec2Requests[k].State = "active"
       /\ k \in InternalIds(internalState)

----------------------------------------------------------------------------
(* update() and the callbacks that throw: properties of SpecFailing *)

(* A request that left the snapshot for the dead state, not open any more, *)
(* about which the latest update() reported no point: plotting it threw    *)
Unplotted ==
  \E i \in 1..Len(deadState.requests) :
    /\ deadState.requests[i].SpotInstanceRequestId \in DepartedRequestIds
    /\ deadState.requests[i].State # "open"
    /\ EventsAbout(deadState.requests[i].SpotInstanceRequestId,
                   {"request_fulfilled", "request_died"}) = {}

(* The stalled requests among those the latest update() was given *)
StalledTargets ==
  LET stalled == _filterSpotRequests(livingSpotRequests, now).stalled
  IN  UNION { {<<r, stalled[r][i].SpotInstanceRequestId>> : i \in 1..Len(stalled[r])} :
                r \in DOMAIN stalled }

(* C28: when reconciling the differences throws inside update(), the       *)
(* exception is caught: the stalled requests are cancelled all the same,   *)
(* and once the cancel calls have resolved the tracker is swept and        *)
(* update() resolves.                                                      *)
C28_DiffFailureCaught ==
  [][/\ UpdateDiffThrows =>
          /\ pc' = "cancelling"
          /\ CancelTargets(cancelCalls') = StalledTargets'
     /\ (Unplotted /\ pc = "cancelling" /\ pc' # "rejected") =>
          /\ pc' = "resolved"
          /\ internalState'
               = _reconcileInternalState(internalState, apiState, now).internalState]_vars

(* update() has resolved after plotting the departed request threw: the    *)
(* stalled request was cancelled and the tracker entry swept               *)
C28_Witness ==
  /\ pc = "resolved"
  /\ Unplotted
  /\ CancelTargets(cancelCalls) # {}
  /\ CancelTargets(cancelCalls) = StalledTargets
  /\ internalState = <<>>
  /\ PointsOfKind("ec2_api_lag") # {}

(* What the describe calls give of the items that can be read *)
WellFormedSnapshot ==
  _classify(describeInstances({"running", "pending"}),
            _filterSpotRequests(describeSpotInstanceRequests({"open"}, {}), now).good)

(* C29: when a response holds an item with a missing field, the item is    *)
(* skipped and the iteration continues: update() does not reject, and the  *)
(* items that can be read are classified into the snapshot.                *)
C29_MalformedItemSkipped ==
  [][(\E response \in Responses : UpdateClassifyThrows(response)) =>
       /\ pc' # "rejected"
       /\ apiState' = WellFormedSnapshot]_vars

(* The request numbered k was in a cancel call of the update() that has    *)
(* just rejected, and is still open                                        *)
CancelFailedFor(k) ==
  /\ pc = "rejected"
  /\ k \in CancelledIds
  /\ ec2Requests[k].State = "open"

(* C30: when a cancel call of update() fails, update() leaves the tracker  *)
(* consistent with the snapshot it installed, no id being in both, and the *)
(* next update() cancels again every request whose cancellation failed and *)
(* that is still open.                                                     *)
C30_FailedCancelRetried ==
  [][/\ (pc = "cancelling" /\ pc' = "rejected") =>
          InternalIds(internalState') \cap knownSpotInstanceRequestIds(apiState') = {}
     /\ \A k \in 1..Len(ec2Requests) :
          (CancelFailedFor(k) /\ pc' = "cancelling") =>
            \E i \in CallsOf(cancelCalls', "cancelSpotInstanceRequests") :
              k \in Range(cancelCalls'[i].SpotInstanceRequestIds)]_vars

----------------------------------------------------------------------------
(* ensureTags: properties of SpecTags *)

(* The resources of the snapshot in region and of workerType that carry no *)
(* Owner tag with the provisioner id as its value                          *)
LacksOwnerTag(obj) ==
  \/ "Tags" \notin DOMAIN obj
  \/ \A i \in 1..Len(obj.Tags) :
       ~(obj.Tags[i].Key = "Owner" /\ obj.Tags[i].Value = provisionerId)

UntaggedIn(region, workerType) ==
  { apiState.instances[i].InstanceId :
      i \in { j \in 1..Len(apiState.instances) :
                /\ apiState.instances[j].Region = region
                /\ apiState.instances[j].WorkerType = workerType
                /\ LacksOwnerTag(apiState.instances[j]) } }
  \cup
  { apiState.requests[i].SpotInstanceRequestId :
      i \in { j \in 1..Len(apiState.requests) :
                /\ apiState.requests[j].Region = region
                /\ apiState.requests[j].WorkerType = workerType
                /\ LacksOwnerTag(apiState.requests[j]) } }

TagCallsFor(region, workerType) ==
  { i \in CallsOf(killCalls, "createTags") :
      killCalls[i].region = region /\ killCalls[i].workerType = workerType }

(* C31: ensureTags resolves whether or not a createTags call fails, and it *)
(* issues one createTags call for every region and worker type that has    *)
(* resources of the snapshot lacking the Owner tag of the provisioner; the *)
(* call names exactly those resources, each once, with the tags Name,      *)
(* Owner and WorkerType of the worker type.                                *)
C31_TagsTheUntagged ==
  call.op = "ensureTags" =>
    /\ pc = "resolved"
    /\ \A region \in RegionSet, workerType \in WorkerNames :
         IF UntaggedIn(region, workerType) = {}
         THEN TagCallsFor(region, workerType) = {}
         ELSE \E i \in 1..Len(killCalls) :
                /\ TagCallsFor(region, workerType) = {i}
                /\ Range(killCalls[i].Resources) = UntaggedIn(region, workerType)
                /\ Len(killCalls[i].Resources)
                     = Cardinality(UntaggedIn(region, workerType))
                /\ killCalls[i].Tags
                     = << [Key |-> "Name", Value |-> workerType],
                          [Key |-> "Owner", Value |-> provisionerId],
                          [Key |-> "WorkerType",
                           Value |-> "aws-provisioner-v1/" \o workerType] >>
    /\ \A i \in 1..Len(killCalls) :
         killCalls[i].op = "createTags" /\ killCalls[i].region \in RegionSet

(* ensureTags has resolved although a createTags call failed; the snapshot *)
(* held a resource with the Owner tag of the provisioner, which is in no   *)
(* call, and one with the Owner tag of someone else, which is in a call    *)
C31_Witness ==
  /\ call.op = "ensureTags"
  /\ call.failed # {}
  /\ pc = "resolved"
  /\ \E i, j \in 1..Len(apiState.instances) :
       /\ ~LacksOwnerTag(apiState.instances[i])
       /\ "Tags" \in DOMAIN apiState.instances[j]
       /\ LacksOwnerTag(apiState.instances[j])
       /\ \E k \in 1..Len(killCalls) :
            apiState.instances[j].InstanceId \in Range(killCalls[k].Resources)
       /\ \A k \in 1..Len(killCalls) :
            apiState.instances[i].InstanceId \notin Range(killCalls[k].Resources)

----------------------------------------------------------------------------
(* The order of the steps of update(): properties of Spec *)

(* C32: in one update() the snapshot is refreshed, the differences are     *)
(* reported and the stalled requests are sent for cancellation before the  *)
(* tracker is swept: when the cancel calls are out the tracker is still    *)
(* unswept, the tracker loses entries only in the step that follows the    *)
(* completion of every cancel call, and update() resolves with that step.  *)
C32_StepsInOrder ==
  [][ /\ (pc # "cancelling" /\ pc' = "cancelling") =>
           /\ internalState' = internalState
           /\ livingSpotRequests' = describeSpotInstanceRequests({"open"}, {})
           /\ previousApiState' = apiState
           /\ apiState' = _classify(describeInstances({"running", "pending"}),
                                    _filterSpotRequests(livingSpotRequests', now).good)
           /\ cancelCalls' = handleStalledRequests(
                               _filterSpotRequests(livingSpotRequests', now).stalled)
           /\ \A i \in 1..Len(events') : events'[i].kind # "ec2_api_lag"
      /\ (pc # "resolved" /\ pc' = "resolved") =>
           /\ pc = "cancelling"
           /\ ec2Requests' = Ec2AfterCancel(1..Len(cancelCalls))
           /\ internalState'
                = _reconcileInternalState(internalState, apiState, now).internalState
           /\ events'
                = events \o _reconcileInternalState(internalState, apiState, now).events
      /\ Len(internalState') < Len(internalState) =>
           /\ pc = "cancelling"
           /\ pc' = "resolved"
           /\ ec2Requests' = Ec2AfterCancel(1..Len(cancelCalls)) ]_vars

(* An update() has resolved that cancelled a stalled request and then      *)
(* swept a tracked request: the event of the sweep follows the event of    *)
(* the first step                                                          *)
C32_Witness ==
  /\ pc = "resolved"
  /\ cancelCalls # <<>>
  /\ Len(events) >= 2
  /\ events[1].kind # "ec2_api_lag"
  /\ events[Len(events)].kind = "ec2_api_lag"
  /\ \E k \in 1..Len(ec2Requests) : ec2Requests[k].State = "cancelled"

----------------------------------------------------------------------------
(* The bids: properties of SpecBid *)

RECURSIVE IsNumeral(_)
IsNumeral(str) ==
  \/ str = ""
  \/ /\ SubSeq(str, 1, 1) \in {"0", "1", "2", "3", "4", "5", "6", "7", "8", "9", "."}
     /\ IsNumeral(SubSeq(str, 2, Len(str)))

(* C34: every call of requestSpotInstances made by requestSpotInstance has *)
(* InstanceCount 1 and Type one-time, goes to an allowed region and        *)
(* carries a numeric price; for a bid to another region or with a price    *)
(* that is not numeric no call is made.                                    *)
C34_BidsWellFormed ==
  call.op = "requestSpotInstance" =>
    /\ \A i \in 1..Len(call.calls) :
         /\ call.calls[i].InstanceCount = 1
         /\ call.calls[i].Type = "one-time"
         /\ call.calls[i].region \in RegionSet
         /\ call.calls[i].SpotPrice # ""
         /\ IsNumeral(call.calls[i].SpotPrice)
    /\ call.bid # <<>> =>
         \/ /\ call.bid[1].region \in RegionSet
            /\ typeof(call.bid[1].price) = "number"
            /\ ~call.bid[1].price.nan
         \/ call.calls = <<>> /\ pc = "bid-threw"

(* The same with the test the code makes: the price is of type number,     *)
(* which NaN is                                                            *)
C34_BidsOfTypeNumber ==
  call.op = "requestSpotInstance" =>
    /\ Len(call.calls) <= 1
    /\ \A i \in 1..Len(call.calls) :
         /\ call.calls[i].InstanceCount = 1
         /\ call.calls[i].Type = "one-time"
         /\ call.calls[i].region \in RegionSet
         /\ call.calls[i].region = call.bid[1].region
         /\ typeof(call.bid[1].price) = "number"
         /\ call.calls[i].SpotPrice = toString(call.bid[1].price)
    /\ (\/ call.bid = <<>>
        \/ call.bid[1].region \notin RegionSet
        \/ typeof(call.bid[1].price) # "number")
         => call.calls = <<>> /\ pc = "bid-threw"

----------------------------------------------------------------------------
(* The snapshot: properties of SpecClassify *)

(* The resources of the account that the describe calls return *)
ReturnedOfKind(kind) ==
  { i \in 1..Len(call.items) :
      /\ call.items[i].kind = kind
      /\ Len(call.items[i].KeyName) >= Len(keyPrefix)
      /\ SubSeq(call.items[i].KeyName, 1, Len(keyPrefix)) = keyPrefix }

ClassifiedAs(item, keyName, id) ==
  /\ id \in 1..Len(call.items)
  /\ SubSeq(keyName, 1, Len(keyPrefix)) = keyPrefix
  /\ keyName = keyPrefix \o item.WorkerType
  /\ item.Region \in RegionSet
  /\ item.Region = call.items[id].Region
  /\ keyName = call.items[id].KeyName

(* C33: the snapshot that _classify builds from the describe results holds *)
(* only items whose key name starts with the key prefix, each with one     *)
(* region, the allowed region it was returned for, and with the worker     *)
(* type that is its key name without the prefix; every returned item is in *)
(* the snapshot once.                                                      *)
C33_SnapshotWellFormed ==
  result # NoCall =>
    LET state == result.state
    IN  /\ \A i \in 1..Len(state.instances) :
             ClassifiedAs(state.instances[i], state.instances[i].KeyName,
                          state.instances[i].InstanceId)
        /\ \A i \in 1..Len(state.requests) :
             ClassifiedAs(state.requests[i],
                          state.requests[i].LaunchSpecification.KeyName,
                          state.requests[i].SpotInstanceRequestId)
        /\ \A id \in ReturnedOfKind("instance") :
             Cardinality({i \in 1..Len(state.instances) :
                            state.instances[i].InstanceId = id}) = 1
        /\ \A id \in ReturnedOfKind("request") :
             Cardinality({i \in 1..Len(state.requests) :
                            state.requests[i].SpotInstanceRequestId = id}) = 1
        /\ Len(state.instances) = Cardinality(ReturnedOfKind("instance"))
        /\ Len(state.requests) = Cardinality(ReturnedOfKind("request"))

(* A snapshot of an instance of the provisioner, built while the account   *)
(* holds a resource with the key of someone else                           *)
C33_Witness ==
  /\ result # NoCall
  /\ Len(result.state.instances) = 1
  /\ result.state.instances[1].WorkerType = "w2"
  /\ \E i \in 1..Len(call.items) : call.items[i].KeyName = "someone-elses-key"

----------------------------------------------------------------------------
(* The chain of snapshots: properties of SpecFailing *)

(* What _compareStates gives for the snapshot just installed against the   *)
(* one it replaced, with the dead resources EC2 described                  *)
InstalledDifferences ==
  LET res3 == describeSpotInstanceRequests({"cancelled", "failed", "closed", "active"}, {})
      dead == _classify(describeInstances({"shutting-down", "terminated", "stopping"}),
                        [r \in DOMAIN res3 |-> res3[r].SpotInstanceRequests])
  IN  _compareStates(apiState, previousApiState, dead)

(* Every difference of the installation has been reported or is awaited *)
InstallationDiffed ==
  /\ \A i \in 1..Len(InstalledDifferences.requests) :
       LET id == InstalledDifferences.requests[i].SpotInstanceRequestId
       IN  \/ EventsAbout(id, {"request_fulfilled", "request_died"}) # {}
           \/ id \in AwaitedIds(awaitingSpotFulfilmentStatus)
  /\ \A i \in 1..Len(InstalledDifferences.instances) :
       LET id == InstalledDifferences.instances[i].InstanceId
       IN  \/ EventsAbout(id, {"instance_terminated"}) # {}
           \/ id \in AwaitedIds(awaitingStateReason)

(* C35: every step of update() that installs a new current snapshot keeps  *)
(* the snapshot it replaces as the previous one and diffs the two: each    *)
(* resource that left is reported or put on a pending list in that step,   *)
(* also when update() fails part-way.                                      *)
C35_EveryInstallationDiffed ==
  [][apiState' # apiState =>
       /\ previousApiState' = apiState
       /\ InstallationDiffed']_vars

----------------------------------------------------------------------------
(* The cancel calls of update(): properties of Spec *)

(* C36: no cancel call of update() names a request twice: the ids of each  *)
(* cancelSpotInstanceRequests call are distinct, also when a request is    *)
(* both older than 20 minutes and in a bad status.                         *)
C36_CancelledOnce ==
  \A i \in CallsOf(cancelCalls, "cancelSpotInstanceRequests") :
    \A j, k \in 1..Len(cancelCalls[i].SpotInstanceRequestIds) :
      cancelCalls[i].SpotInstanceRequestIds[j] = cancelCalls[i].SpotInstanceRequestIds[k]
        => j = k

(* C37: once update() has resolved, no request that it cancelled as        *)
(* stalled has an entry in the tracker, so that a cancelled bid no longer  *)
(* counts toward capacityForType.                                          *)
C37_CancelledNotTracked ==
  pc = "resolved" => CancelledIds \cap InternalIds(internalState) = {}

----------------------------------------------------------------------------
(* No resource is reported twice: properties of SpecAwaiting *)

TerminationKinds == {"instance_terminated"}
SettlementKinds == {"request_fulfilled", "request_died"}

(* The update() that starts with this step reports the resource id with an *)
(* event of one of kinds                                                   *)
ReportedAnew(id, kinds) ==
  /\ pc' = "cancelling"
  /\ pc # "cancelling"
  /\ \E i \in 1..Len(events') : events'[i].kind \in kinds /\ events'[i].id = id

HeldOnce(list) ==
  \A i, j \in 1..Len(list) : list[i].id = list[j].id => i = j

(* The instance id can be reported no more: it has left the snapshot and  *)
(* the pending list, and EC2 has it no longer running                      *)
InstanceSpent(id) ==
  /\ id \notin InstanceIds(apiState.instances)
  /\ id \notin AwaitedIds(awaitingStateReason)
  /\ id \in 1..Len(ec2Requests)
  /\ ec2Requests[id].iState \in {"shutting-down", "terminated", "stopping"}

(* The request id can be reported no more: it has left the snapshot and is *)
(* open no longer                                                          *)
RequestSpent(id) ==
  /\ id \notin RequestIds(apiState.requests)
  /\ id \in 1..Len(ec2Requests)
  /\ ec2Requests[id].State # "open"

(* C38: over the update() calls, an instance gets at most one              *)
(* instance_terminated event and a spot request at most one                *)
(* request_fulfilled or request_died event, and no id is twice on a        *)
(* pending list: one update() reports an id at most once, the update()     *)
(* that reports an id leaves it spent, and a spent id stays spent and is   *)
(* not reported again.                                                     *)
C38_ReportedAtMostOnce ==
  /\ [](\A id \in 1..MaxInFlight :
          /\ Cardinality(EventsAbout(id, TerminationKinds)) <= 1
          /\ Cardinality(EventsAbout(id, SettlementKinds)) <= 1)
  /\ [](HeldOnce(awaitingStateReason) /\ HeldOnce(awaitingSpotFulfilmentStatus))
  /\ [][\A id \in 1..MaxInFlight :
          /\ ReportedAnew(id, TerminationKinds) => ~InstanceSpent(id) /\ InstanceSpent(id)'
          /\ ReportedAnew(id, SettlementKinds) => ~RequestSpent(id) /\ RequestSpent(id)'
          /\ InstanceSpent(id) => InstanceSpent(id)'
          /\ RequestSpent(id) => RequestSpent(id)']_vars

(* An update() has resolved that reported the termination of instance 1,  *)
(* whose reason it found in the dead state: the instance and its request   *)
(* are spent                                                               *)
C38_Witness ==
  /\ pc = "resolved"
  /\ EventsAbout(1, TerminationKinds) # {}
  /\ InstanceSpent(1)
  /\ RequestSpent(1)
  /\ deadState.instances # <<>>

----------------------------------------------------------------------------
(* The configured worker types: properties of SpecRouge *)

(* The calls name nothing of the worker type: no instance or request of it *)
(* in a terminate or cancel call, no deleteKeyPair of its key pair         *)
Untargeted(calls, name) ==
  /\ \A target \in TerminateTargets(calls) \cup CancelTargets(calls) :
       ec2Requests[target[2]].workerType # name
  /\ \A target \in DeleteTargets(calls) : target[2] # KeyPairName(name)

CachedAmong(cache, names) == SelectSeq(cache, LAMBDA name : name \in names)

(* C39: a call of rougeKiller names no instance, request or key pair of a  *)
(* configured worker type in a terminate, cancel or deleteKeyPair call,    *)
(* and leaves the entries of the configured worker types in the cache of   *)
(* known key pairs, and what EC2 holds of them, as they were.              *)
C39_ConfiguredUntouched ==
  [][RougeKillerRuns =>
       /\ \A name \in call'.configuredWorkers : Untargeted(killCalls', name)
       /\ CachedAmong(knownKeyPairs', call'.configuredWorkers)
            = CachedAmong(knownKeyPairs, call'.configuredWorkers)
       /\ \A k \in 1..Len(ec2Requests) :
            ec2Requests[k].workerType \in call'.configuredWorkers
              => ec2Requests'[k] = ec2Requests[k]
       /\ \A name \in call'.configuredWorkers, r \in RegionSet :
            <<r, KeyPairName(name)>> \in keyPairs
              <=> <<r, KeyPairName(name)>> \in keyPairs']_vars

(* rougeKiller has run with w1 configured and both worker types known in   *)
(* state: it killed and uncached w2 and left w1 in the cache               *)
C39_Witness ==
  /\ call.op = "rougeKiller"
  /\ call.configuredWorkers = {"w1"}
  /\ KnownInState("w1")
  /\ TerminateTargets(killCalls) \cup CancelTargets(killCalls) # {}
  /\ DeleteTargets(killCalls) # {}
  /\ knownKeyPairs = <<"w1">>

----------------------------------------------------------------------------
(* The cache of known key pairs: properties of SpecKeyPairsInTurn and of   *)
(* SpecKeyPairs                                                            *)

(* Call i is a createKeyPair that settles in this step *)
CreateSettles(i, outcome) ==
  /\ i \in 1..Len(keyPairCalls)
  /\ keyPairCalls[i].op = "createKeyPair"
  /\ keyPairCalls[i].pc \notin {"resolved", "rejected"}
  /\ keyPairCalls'[i].pc = outcome

(* A createKeyPair call is made in this step *)
CreateStarts ==
  /\ Len(keyPairCalls') = Len(keyPairCalls) + 1
  /\ keyPairCalls'[Len(keyPairCalls')].op = "createKeyPair"

(* C40: createKeyPair pushes the worker type to the cache of known key     *)
(* pairs in the step in which it resolves, after describeKeyPairs has      *)
(* resolved and every importKeyPair it issued has succeeded; when one of   *)
(* them fails it rejects and the cache stays as it was, so that the next   *)
(* createKeyPair for the worker type describes every region again; a call  *)
(* that finds the worker type in the cache resolves with no cloud call.    *)
C40_CachedOnlyAfterSuccess ==
  [][/\ \A name \in WorkerNames :
          Len(CachedAmong(knownKeyPairs', {name})) > Len(CachedAmong(knownKeyPairs, {name}))
            => \E i \in 1..Len(keyPairCalls) :
                 /\ CreateSettles(i, "resolved")
                 /\ keyPairCalls[i].workerName = name
                 /\ keyPairCalls[i].pc = "calling"
                 /\ keyPairCalls[i].pending = {}
                 /\ ~keyPairCalls[i].failed
                 /\ keyPairCalls[i].injected = 0
     /\ \A i \in 1..Len(keyPairCalls) :
          /\ CreateSettles(i, "rejected") => knownKeyPairs' = knownKeyPairs
          /\ CreateSettles(i, "resolved") => ~keyPairCalls[i].failed
          /\ (keyPairCalls[i].op = "createKeyPair" /\ keyPairCalls[i].injected = 1)
               => keyPairCalls'[i].pc # "resolved"
          /\ (keyPairCalls[i].op = "createKeyPair" /\ ~keyPairCalls[i].miss)
               => keyPairCalls'[i] = keyPairCalls[i]
     /\ CreateStarts =>
          LET c == keyPairCalls'[Len(keyPairCalls')]
          IN  IF c.workerName \in Range(knownKeyPairs)
              THEN c.pc = "resolved" /\ ~c.miss /\ c.issued = {} /\ c.pending = {}
              ELSE c.pc = "describing" /\ c.miss
     /\ \A i \in 1..Len(keyPairCalls) :
          (keyPairCalls[i].pc = "describing" /\ keyPairCalls'[i].pc = "calling")
            => DOMAIN keyPairCalls'[i].res = RegionSet]_vars

(* A createKeyPair for w1 rejected on a failed importKeyPair and left the  *)
(* cache empty; the next one described the regions again, imported what    *)
(* was missing and put w1 in the cache                                     *)
C40_Witness ==
  /\ Len(keyPairCalls) = 2
  /\ \A i \in 1..2 : /\ keyPairCalls[i].op = "createKeyPair"
                     /\ keyPairCalls[i].workerName = "w1"
                     /\ keyPairCalls[i].miss
  /\ keyPairCalls[1].pc = "rejected"
  /\ keyPairCalls[1].issued # {}
  /\ keyPairCalls[2].pc = "resolved"
  /\ keyPairCalls[2].issued # {}
  /\ knownKeyPairs = <<"w1">>

====
